---- MODULE Spec2Model ----
(***************************************************************************)
(* Streaming bridge of the native PDF renderer: JsFileStreamer (Read +     *)
(* Seek over a block cache and a blocking fetch), SharedState (cache,      *)
(* stats, pending requests, request sequence) and the process-wide         *)
(* registry of sessions used by complete_stream_request.                   *)
(*                                                                         *)
(* Byte sequences are kept as windows of a source: [file, src, len] is the *)
(* len bytes of file `file` starting at byte `src`; file 0 is data that    *)
(* comes from no source.  A u32 request id is kept as its two 16-bit       *)
(* halves [hi, lo] (value hi * 65536 + lo).                                *)
(***************************************************************************)
EXTENDS Integers, Sequences, FiniteSets, TLC

\* ---------------------------------------------------------------- constants

CACHE_BLOCK_SIZE == 262144

MAX_CACHE_BLOCKS == 64

\* number of values of the u16 request sequence (wrapping_add on u16)
SEQ_SPACE == 65536

\* number of values next_task_id can return (*id & 0xFFFF)
TASK_SPACE == 65536

\* ------------------------------------------------------------------- bounds

\* streaming operations (render_pages_from_stream calls) that are followed
MaxOps == 2

\* read/seek calls the consumer makes per operation
MaxCalls == 3

\* read calls per operation where several operations run side by side
MaxSessionCalls == 2

\* runs of many back-to-back operations / failing reads (see the bursts)
MaxBursts == 1

\* read calls of the sequential reader used for the cache-capacity runs
MaxScanCalls == 136

Ops == 1 .. MaxOps

\* length of a payload that is shorter than the window asked for
ShortLen == 10

None == [none |-> TRUE]

Some(v) == [none |-> FALSE, val |-> v]

Min(a, b) == IF a <= b THEN a ELSE b

saturating_sub(a, b) == IF a >= b THEN a - b ELSE 0

\* ------------------------------------------------------------ byte windows

EmptyData == [file |-> 0, src |-> 0, len |-> 0]

Window(file, src, len) == IF len = 0 THEN EmptyData ELSE [file |-> file, src |-> src, len |-> len]

\* data[start .. start + n), defined for start <= data.len (Rust panics otherwise)
Slice(data, start, n) == Window(data.file, data.src + start, n)

\* ------------------------------------------------------------- SharedState

NoStats == [total_requests |-> 0, cache_hits |-> 0, cache_misses |-> 0, total_bytes_fetched |-> 0]

EmptyMap == [k \in {} |-> 0]

SharedState_new(task_id) ==
  [task_id |-> task_id,
   cache |-> EmptyMap,
   access_counter |-> 0,
   stats |-> NoStats,
   pending_requests |-> EmptyMap,
   next_request_seq |-> 0]

MapInsert(m, k, v) == [x \in (DOMAIN m) \cup {k} |-> IF x = k THEN v ELSE m[x]]

MapRemove(m, k) == [x \in (DOMAIN m) \ {k} |-> m[x]]

\* an id made of the sequence alone, the task id left out
ComposeId_sequence_only(task_id, seq) == [hi |-> 0, lo |-> seq]

\* (task_id << 16) | seq on u32, as halves
ComposeId(task_id, seq) == [hi |-> task_id % 65536, lo |-> seq]

\* next_id that does not store the advanced sequence
next_id_not_advanced(s) == [id |-> ComposeId(s.task_id, s.next_request_seq), state |-> s]

\* next_id whose sequence stops at its last value instead of wrapping
next_id_saturating(s) ==
  [id |-> ComposeId(s.task_id, s.next_request_seq),
   state |-> [s EXCEPT !.next_request_seq = Min(s.next_request_seq + 1, SEQ_SPACE - 1)]]

\* SharedState::next_id: the id and the state with the sequence advanced
next_id(s) ==
  [id |-> ComposeId(s.task_id, s.next_request_seq),
   state |-> [s EXCEPT !.next_request_seq = (s.next_request_seq + 1) % SEQ_SPACE]]

register_request(s, request_id, sender) ==
  [s EXCEPT !.pending_requests = MapInsert(s.pending_requests, request_id, sender)]

\* pending_requests.remove(&request_id) of the rejected and the timeout path
remove_request(s, request_id) ==
  [s EXCEPT !.pending_requests = MapRemove(s.pending_requests, request_id)]

\* complete_request that looks the sender up without removing it
complete_request_keeps(s, request_id) ==
  IF request_id \in DOMAIN s.pending_requests
  THEN [state |-> s, sent |-> Some(s.pending_requests[request_id])]
  ELSE [state |-> s, sent |-> None]

\* complete_request that takes any pending request of the session, whatever its id
complete_request_any(s, request_id) ==
  IF DOMAIN s.pending_requests # {}
  THEN LET found == CHOOSE r \in DOMAIN s.pending_requests : TRUE
       IN [state |-> remove_request(s, found), sent |-> Some(s.pending_requests[found])]
  ELSE [state |-> s, sent |-> None]

\* complete_request that counts the completion in the stats
complete_request_counts(s, request_id) ==
  IF request_id \in DOMAIN s.pending_requests
  THEN [state |-> [remove_request(s, request_id) EXCEPT !.stats.total_bytes_fetched = @ + 1],
        sent |-> Some(s.pending_requests[request_id])]
  ELSE [state |-> s, sent |-> None]

\* SharedState::complete_request: the state afterwards, and the channel the
\* result was sent on (None when no sender was registered under the id)
complete_request(s, request_id) ==
  IF request_id \in DOMAIN s.pending_requests
  THEN [state |-> remove_request(s, request_id), sent |-> Some(s.pending_requests[request_id])]
  ELSE [state |-> s, sent |-> None]

\* a block offset rounded up instead of down
cache_block_offset_rounded_up(offset) ==
  ((offset + CACHE_BLOCK_SIZE - 1) \div CACHE_BLOCK_SIZE) * CACHE_BLOCK_SIZE

cache_block_offset(offset) == (offset \div CACHE_BLOCK_SIZE) * CACHE_BLOCK_SIZE

\* read_from_cache that forgets the offset within the block
read_from_cache_block_start(s, offset, size) ==
  LET block_offset == cache_block_offset(offset)
  IN IF block_offset \in DOMAIN s.cache
     THEN LET counter == s.access_counter + 1
              entry == s.cache[block_offset]
              bumped == [s EXCEPT !.access_counter = counter,
                                  !.cache[block_offset].access_order = counter]
              read_size == Min(size, entry.data.len)
          IN IF read_size > 0
             THEN [state |-> [bumped EXCEPT !.stats.cache_hits = @ + 1],
                   data |-> Some(Slice(entry.data, 0, read_size))]
             ELSE [state |-> bumped, data |-> None]
     ELSE [state |-> s, data |-> None]

\* read_from_cache that serves a read only when the block holds all of it
read_from_cache_whole_only(s, offset, size) ==
  LET block_offset == cache_block_offset(offset)
  IN IF block_offset \in DOMAIN s.cache
     THEN LET counter == s.access_counter + 1
              entry == s.cache[block_offset]
              bumped == [s EXCEPT !.access_counter = counter,
                                  !.cache[block_offset].access_order = counter]
              offset_in_block == offset - block_offset
              available == saturating_sub(entry.data.len, offset_in_block)
          IN IF size <= available
             THEN [state |-> [bumped EXCEPT !.stats.cache_hits = @ + 1],
                   data |-> Some(Slice(entry.data, offset_in_block, size))]
             ELSE [state |-> bumped, data |-> None]
     ELSE [state |-> s, data |-> None]

\* read_from_cache that leaves the access order of the block it finds alone
read_from_cache_no_bump(s, offset, size) ==
  LET block_offset == cache_block_offset(offset)
  IN IF block_offset \in DOMAIN s.cache
     THEN LET entry == s.cache[block_offset]
              offset_in_block == offset - block_offset
              available == saturating_sub(entry.data.len, offset_in_block)
              read_size == Min(size, available)
          IN IF read_size > 0
             THEN [state |-> [s EXCEPT !.stats.cache_hits = @ + 1],
                   data |-> Some(Slice(entry.data, offset_in_block, read_size))]
             ELSE [state |-> s, data |-> None]
     ELSE [state |-> s, data |-> None]

\* read_from_cache that does not count the hit
read_from_cache_uncounted_hit(s, offset, size) ==
  LET block_offset == cache_block_offset(offset)
  IN IF block_offset \in DOMAIN s.cache
     THEN LET counter == s.access_counter + 1
              entry == s.cache[block_offset]
              bumped == [s EXCEPT !.access_counter = counter,
                                  !.cache[block_offset].access_order = counter]
              offset_in_block == offset - block_offset
              available == saturating_sub(entry.data.len, offset_in_block)
              read_size == Min(size, available)
          IN IF read_size > 0
             THEN [state |-> bumped, data |-> Some(Slice(entry.data, offset_in_block, read_size))]
             ELSE [state |-> bumped, data |-> None]
     ELSE [state |-> s, data |-> None]

\* JsFileStreamer::read_from_cache: the state afterwards and Option<Vec<u8>>
read_from_cache(s, offset, size) ==
  LET block_offset == cache_block_offset(offset)
  IN IF block_offset \in DOMAIN s.cache
     THEN LET counter == s.access_counter + 1
              entry == s.cache[block_offset]
              bumped == [s EXCEPT !.access_counter = counter,
                                  !.cache[block_offset].access_order = counter]
              offset_in_block == offset - block_offset
              available == saturating_sub(entry.data.len, offset_in_block)
              read_size == Min(size, available)
          IN IF read_size > 0
             THEN [state |-> [bumped EXCEPT !.stats.cache_hits = @ + 1],
                   data |-> Some(Slice(entry.data, offset_in_block, read_size))]
             ELSE [state |-> bumped, data |-> None]
     ELSE [state |-> s, data |-> None]

\* the key of the block used last
newest_key(cache) == CHOOSE k \in DOMAIN cache : \A j \in DOMAIN cache : cache[k].access_order >= cache[j].access_order

\* the key min_by_key(access_order) picks
oldest_key(cache) == CHOOSE k \in DOMAIN cache : \A j \in DOMAIN cache : cache[k].access_order <= cache[j].access_order

RECURSIVE evict_late(_)
\* an eviction loop that starts only above the capacity
evict_late(cache) ==
  IF Cardinality(DOMAIN cache) > MAX_CACHE_BLOCKS /\ DOMAIN cache # {}
  THEN evict_late(MapRemove(cache, oldest_key(cache)))
  ELSE cache

RECURSIVE evict(_)
\* the while loop of write_to_cache
evict(cache) ==
  IF Cardinality(DOMAIN cache) >= MAX_CACHE_BLOCKS /\ DOMAIN cache # {}
  THEN evict(MapRemove(cache, oldest_key(cache)))
  ELSE cache

\* JsFileStreamer::write_to_cache
write_to_cache(s, offset, data) ==
  LET block_offset == cache_block_offset(offset)
      counter == s.access_counter + 1
  IN [s EXCEPT !.access_counter = counter,
               !.cache = MapInsert(evict(s.cache), block_offset, [data |-> data, access_order |-> counter])]

\* a fetch_block that always asks for a whole block, also at the end of the source
fetch_begin_whole_block(s, file_size, offset, size) ==
  LET looked == read_from_cache(s, offset, size)
      counted == [looked.state EXCEPT !.stats.cache_misses = @ + 1, !.stats.total_requests = @ + 1]
      ided == next_id(counted)
      sender == counted.stats.cache_misses
  IN IF ~looked.data.none
     THEN [kind |-> "hit", state |-> looked.state, data |-> looked.data.val]
     ELSE [kind |-> "pending",
           state |-> register_request(ided.state, ided.id, sender),
           request |-> [offset |-> cache_block_offset(offset), size |-> CACHE_BLOCK_SIZE,
                        request_id |-> ided.id],
           chan |-> sender]

\* a fetch_block that asks for a block's length from the position read at,
\* not from the start of its block
fetch_begin_unaligned(s, file_size, offset, size) ==
  LET looked == read_from_cache(s, offset, size)
      counted == [looked.state EXCEPT !.stats.cache_misses = @ + 1, !.stats.total_requests = @ + 1]
      ided == next_id(counted)
      sender == counted.stats.cache_misses
  IN IF ~looked.data.none
     THEN [kind |-> "hit", state |-> looked.state, data |-> looked.data.val]
     ELSE [kind |-> "pending",
           state |-> register_request(ided.state, ided.id, sender),
           request |-> [offset |-> offset, size |-> Min(CACHE_BLOCK_SIZE, saturating_sub(file_size, offset)),
                        request_id |-> ided.id],
           chan |-> sender]

\* a fetch_block that goes on to its dispatch without having registered its request
fetch_begin_unregistered(s, file_size, offset, size) ==
  LET looked == read_from_cache(s, offset, size)
      counted == [looked.state EXCEPT !.stats.cache_misses = @ + 1, !.stats.total_requests = @ + 1]
      block_offset == cache_block_offset(offset)
      fetch_size == Min(CACHE_BLOCK_SIZE, saturating_sub(file_size, block_offset))
      ided == next_id(counted)
      sender == counted.stats.cache_misses
  IN IF ~looked.data.none
     THEN [kind |-> "hit", state |-> looked.state, data |-> looked.data.val]
     ELSE IF fetch_size = 0
     THEN [kind |-> "short", state |-> counted]
     ELSE [kind |-> "pending",
           state |-> ided.state,
           request |-> [offset |-> block_offset, size |-> fetch_size, request_id |-> ided.id],
           chan |-> sender]

\* a fetch_block that measures what remains of the source from the end of the block
fetch_begin_next_block(s, file_size, offset, size) ==
  LET looked == read_from_cache(s, offset, size)
      counted == [looked.state EXCEPT !.stats.cache_misses = @ + 1, !.stats.total_requests = @ + 1]
      block_offset == cache_block_offset(offset)
      remaining == saturating_sub(file_size, block_offset + CACHE_BLOCK_SIZE)
      fetch_size == Min(CACHE_BLOCK_SIZE, remaining)
      ided == next_id(counted)
      sender == counted.stats.cache_misses
  IN IF ~looked.data.none
     THEN [kind |-> "hit", state |-> looked.state, data |-> looked.data.val]
     ELSE IF fetch_size = 0
     THEN [kind |-> "short", state |-> counted]
     ELSE [kind |-> "pending",
           state |-> register_request(ided.state, ided.id, sender),
           request |-> [offset |-> block_offset, size |-> fetch_size, request_id |-> ided.id],
           chan |-> sender]

\* fetch_block up to the registration of the request (stream_reader.rs 217-249):
\* a cache hit, a ShortRead, or a registered request still to be dispatched
fetch_begin(s, file_size, offset, size) ==
  LET looked == read_from_cache(s, offset, size)
      counted == [looked.state EXCEPT !.stats.cache_misses = @ + 1, !.stats.total_requests = @ + 1]
      block_offset == cache_block_offset(offset)
      remaining == saturating_sub(file_size, block_offset)
      fetch_size == Min(CACHE_BLOCK_SIZE, remaining)
      ided == next_id(counted)
      sender == counted.stats.cache_misses
  IN IF ~looked.data.none
     THEN [kind |-> "hit", state |-> looked.state, data |-> looked.data.val]
     ELSE IF fetch_size = 0
     THEN [kind |-> "short", state |-> counted]
     ELSE [kind |-> "pending",
           state |-> register_request(ided.state, ided.id, sender),
           request |-> [offset |-> block_offset, size |-> fetch_size, request_id |-> ided.id],
           chan |-> sender]

\* a fetch_block that answers with the whole block it received
fetch_finish_whole_block(s, offset, size, block_offset, result) ==
  IF result.ok
  THEN LET counted == [s EXCEPT !.stats.total_bytes_fetched = @ + result.data.len]
       IN [kind |-> "ok", state |-> write_to_cache(counted, block_offset, result.data), data |-> result.data]
  ELSE [kind |-> "err", state |-> s, error |-> "Rejected", detail |-> result.error]

\* a fetch_block that counts the bytes it returns instead of the bytes it received
fetch_finish_counts_returned(s, offset, size, block_offset, result) ==
  IF result.ok
  THEN LET data == result.data
           offset_in_block == offset - block_offset
           read_size == Min(size, saturating_sub(data.len, offset_in_block))
           counted == [s EXCEPT !.stats.total_bytes_fetched = @ + read_size]
           cached == write_to_cache(counted, block_offset, data)
       IN IF offset_in_block > data.len
          THEN [kind |-> "panic", state |-> cached]
          ELSE [kind |-> "ok", state |-> cached, data |-> Slice(data, offset_in_block, read_size)]
  ELSE [kind |-> "err", state |-> s, error |-> "Rejected", detail |-> result.error]

\* fetch_block after a result arrived on the channel (stream_reader.rs 275-293)
fetch_finish(s, offset, size, block_offset, result) ==
  IF result.ok
  THEN LET data == result.data
           counted == [s EXCEPT !.stats.total_bytes_fetched = @ + data.len]
           cached == write_to_cache(counted, block_offset, data)
           offset_in_block == offset - block_offset
           available == saturating_sub(data.len, offset_in_block)
           read_size == Min(size, available)
       IN IF offset_in_block > data.len
          THEN [kind |-> "panic", state |-> cached]
          ELSE [kind |-> "ok", state |-> cached, data |-> Slice(data, offset_in_block, read_size)]
  ELSE [kind |-> "err", state |-> s, error |-> "Rejected", detail |-> result.error]

\* ------------------------------------------------------------------- state

VARIABLES
  GLOBAL_TASK_ID,        \* the process-wide task counter
  GLOBAL_STREAM_STATES,  \* task id -> operation whose SharedState is registered
  state,                 \* operation -> its SharedState
  streamer,              \* operation -> [file_size, position] of its JsFileStreamer
  pc,                    \* operation -> where it is
  call,                  \* operation -> arguments and locals of the fetch_block in progress
  rx,                    \* operation -> results sent on the channel of that fetch_block
  ret,                   \* operation -> what its last read or seek returned
  outbox,                \* requests the fetcher was called with, and how their fetch ended
  from,                  \* operation -> for each result in rx, the request the peer answered with it
  exact,                 \* operation -> every data received so far was the window asked for
  used,                  \* how much of the bounds has been used
  threads                \* thread -> where it is in its code, by the locks it takes, and the locks it holds

vars == <<GLOBAL_TASK_ID, GLOBAL_STREAM_STATES, state, streamer, pc, call, rx, ret, outbox, from, exact, used, threads>>

NoCall == [offset |-> 0, size |-> 0, block_offset |-> 0, fetch_size |-> 0, request_id |-> ComposeId(0, 0), chan |-> 0]

NoRet == [kind |-> "none"]

\* the threads that take locks: the delivering context (0), and for each
\* operation the code that registers it, its worker and its resolver, which
\* run one after the other
Threads == {0} \cup Ops

\* a thread that has not started: nothing to do, no lock held
NoThread == [at |-> "init", todo |-> <<>>, holds |-> <<>>]

Init ==
  /\ GLOBAL_TASK_ID = 0
  /\ GLOBAL_STREAM_STATES = EmptyMap
  /\ state = [o \in Ops |-> SharedState_new(0)]
  /\ streamer = [o \in Ops |-> [file_size |-> 0, position |-> 0]]
  /\ pc = [o \in Ops |-> "init"]
  /\ call = [o \in Ops |-> NoCall]
  /\ rx = [o \in Ops |-> <<>>]
  /\ ret = [o \in Ops |-> NoRet]
  /\ outbox = {}
  /\ from = [o \in Ops |-> <<>>]
  /\ exact = [o \in Ops |-> TRUE]
  /\ used = [calls |-> [o \in Ops |-> 0], reads |-> [o \in Ops |-> 0], ops |-> 0]
  /\ threads = [t \in Threads |-> NoThread]

\* ------------------------------------------------------- session registry

\* *id & 0xFFFF
next_task_id(counter) == counter % TASK_SPACE

\* a registration that enters nothing
register_stream_state_skipped(states, task_id, o) == states

register_stream_state(states, task_id, o) == MapInsert(states, task_id, o)

unregister_stream_state(states, task_id) == MapRemove(states, task_id)

\* render_pages_from_stream up to execute_tokio_future: a task id is drawn,
\* the streamer built and its SharedState registered
StartOperation(o, sizes) ==
  /\ pc[o] = "init"
  /\ \A p \in Ops : p < o => pc[p] # "init"
  /\ \E file_size \in sizes :
       LET task_id == next_task_id(GLOBAL_TASK_ID)
       IN /\ GLOBAL_TASK_ID' = GLOBAL_TASK_ID + 1
          /\ state' = [state EXCEPT ![o] = SharedState_new(task_id)]
          /\ streamer' = [streamer EXCEPT ![o] = [file_size |-> file_size, position |-> 0]]
          /\ GLOBAL_STREAM_STATES' = register_stream_state(GLOBAL_STREAM_STATES, task_id, o)
          /\ pc' = [pc EXCEPT ![o] = "ready"]
  /\ UNCHANGED <<call, rx, ret, outbox, from, exact, used, threads>>

\* render_pages_from_stream when create_threadsafe_function fails: the task
\* id is spent, nothing is registered and the call returns the error
StartOperationFails(o) ==
  /\ pc[o] = "init"
  /\ \A p \in Ops : p < o => pc[p] # "init"
  /\ GLOBAL_TASK_ID' = GLOBAL_TASK_ID + 1
  /\ pc' = [pc EXCEPT ![o] = "done"]
  /\ UNCHANGED <<GLOBAL_STREAM_STATES, state, streamer, call, rx, ret, outbox, from, exact, used, threads>>

\* -------------------------------------------------------------- the adapter

ReadOk(position, data) == [kind |-> "ok", op |-> "read", pos |-> position, data |-> data]

Failed(op, error) == [kind |-> "err", op |-> op, error |-> error]

\* a failure that carries the peer's error text ("Failed to fetch block: {}")
FailedWith(op, error, detail) == [kind |-> "err", op |-> op, error |-> error, detail |-> detail]

\* an end-of-source test that misses positions past the end
end_of_source_only_at(file_size, position) == position = file_size

\* the first test of read: position >= file_size
end_of_source(file_size, position) == position >= file_size

\* impl Read for JsFileStreamer, up to the point where fetch_block has
\* registered its request (a hit, an end of file and a ShortRead return at once)
Read(o, buf_len, maxcalls) ==
  /\ pc[o] = "ready"
  /\ used.calls[o] < maxcalls
  /\ used' = [used EXCEPT !.calls[o] = @ + 1]
  /\ LET file_size == streamer[o].file_size
         position == streamer[o].position
         remaining == file_size - position
         to_read == Min(buf_len, remaining)
         begun == fetch_begin(state[o], file_size, position, to_read)
     IN IF end_of_source(file_size, position) \/ to_read = 0
        THEN /\ ret' = [ret EXCEPT ![o] = ReadOk(position, EmptyData)]
             /\ UNCHANGED <<state, streamer, pc, call, rx, from>>
        ELSE /\ state' = [state EXCEPT ![o] = begun.state]
             /\ CASE begun.kind = "hit" ->
                       /\ ret' = [ret EXCEPT ![o] = ReadOk(position, begun.data)]
                       /\ streamer' = [streamer EXCEPT ![o].position = @ + begun.data.len]
                       /\ UNCHANGED <<pc, call, rx, from>>
                  [] begun.kind = "short" ->
                       /\ ret' = [ret EXCEPT ![o] = Failed("read", "ShortRead")]
                       /\ UNCHANGED <<streamer, pc, call, rx, from>>
                  [] begun.kind = "pending" ->
                       /\ call' = [call EXCEPT ![o] =
                            [offset |-> position, size |-> to_read,
                             block_offset |-> begun.request.offset,
                             fetch_size |-> begun.request.size,
                             request_id |-> begun.request.request_id,
                             chan |-> begun.chan]]
                       /\ rx' = [rx EXCEPT ![o] = <<>>]
                       /\ from' = [from EXCEPT ![o] = <<>>]
                       /\ pc' = [pc EXCEPT ![o] = "dispatch"]
                       /\ UNCHANGED <<streamer, ret>>
  /\ UNCHANGED <<GLOBAL_TASK_ID, GLOBAL_STREAM_STATES, outbox, exact, threads>>

\* the outbox once the fetch_block in progress of operation o has ended
Ended(o, fate) ==
  {IF m.op = o /\ m.chan = call[o].chan THEN [m EXCEPT !.fate = fate] ELSE m : m \in outbox}

\* fetcher.call(.., NonBlocking) returned Ok: the request is with the peer
Dispatch(o) ==
  /\ pc[o] = "dispatch"
  /\ outbox' = outbox \cup {[op |-> o, chan |-> call[o].chan, offset |-> call[o].block_offset,
                             size |-> call[o].fetch_size, request_id |-> call[o].request_id,
                             fate |-> "open"]}
  /\ pc' = [pc EXCEPT ![o] = "wait"]
  /\ UNCHANGED <<GLOBAL_TASK_ID, GLOBAL_STREAM_STATES, state, streamer, call, rx, ret, from, exact, used, threads>>

\* a rejected dispatch that leaves the request registered
DispatchRejectedKeepsRequest(o) ==
  /\ pc[o] = "dispatch"
  /\ ret' = [ret EXCEPT ![o] = Failed("read", "Rejected")]
  /\ pc' = [pc EXCEPT ![o] = "ready"]
  /\ UNCHANGED <<GLOBAL_TASK_ID, GLOBAL_STREAM_STATES, state, streamer, call, rx, outbox, from, exact, used, threads>>

\* a rejected dispatch after which the fetch waits for a result all the same
DispatchRejectedWaits(o) ==
  /\ pc[o] = "dispatch"
  /\ pc' = [pc EXCEPT ![o] = "wait"]
  /\ UNCHANGED <<GLOBAL_TASK_ID, GLOBAL_STREAM_STATES, state, streamer, call, rx, ret, outbox, from, exact, used, threads>>

\* fetcher.call returned another status: the request is taken back
DispatchRejected(o) ==
  /\ pc[o] = "dispatch"
  /\ state' = [state EXCEPT ![o] = remove_request(@, call[o].request_id)]
  /\ ret' = [ret EXCEPT ![o] = Failed("read", "Rejected")]
  /\ pc' = [pc EXCEPT ![o] = "ready"]
  /\ UNCHANGED <<GLOBAL_TASK_ID, GLOBAL_STREAM_STATES, streamer, call, rx, outbox, from, exact, used, threads>>

\* recv_timeout returned a result
Receive(o) ==
  /\ pc[o] = "wait"
  /\ rx[o] # <<>>
  /\ LET result == Head(rx[o])
         done == fetch_finish(state[o], call[o].offset, call[o].size, call[o].block_offset, result)
     IN /\ state' = [state EXCEPT ![o] = done.state]
        /\ exact' = [exact EXCEPT ![o] =
             @ /\ (result.ok => result.data = Window(o, call[o].block_offset, call[o].fetch_size))]
        /\ CASE done.kind = "ok" ->
                  /\ ret' = [ret EXCEPT ![o] = ReadOk(call[o].offset, done.data)]
                  /\ streamer' = [streamer EXCEPT ![o].position = @ + done.data.len]
                  /\ pc' = [pc EXCEPT ![o] = "ready"]
             [] done.kind = "err" ->
                  /\ ret' = [ret EXCEPT ![o] = FailedWith("read", done.error, done.detail)]
                  /\ pc' = [pc EXCEPT ![o] = "ready"]
                  /\ UNCHANGED streamer
             [] done.kind = "panic" ->
                  /\ pc' = [pc EXCEPT ![o] = "panicked"]
                  /\ UNCHANGED <<streamer, ret>>
  /\ outbox' = Ended(o, IF Head(rx[o]).ok THEN "data" ELSE "error")
  /\ UNCHANGED <<GLOBAL_TASK_ID, GLOBAL_STREAM_STATES, call, rx, from, used, threads>>

\* recv_timeout ran out with nothing on the channel
Timeout(o) ==
  /\ pc[o] = "wait"
  /\ rx[o] = <<>>
  /\ pc' = [pc EXCEPT ![o] = "expired"]
  /\ UNCHANGED <<GLOBAL_TASK_ID, GLOBAL_STREAM_STATES, state, streamer, call, rx, ret, outbox, from, exact, used, threads>>

\* a timeout path that sends the request once more instead of failing
ExpireRetries(o) ==
  /\ pc[o] = "expired"
  /\ pc' = [pc EXCEPT ![o] = "dispatch"]
  /\ outbox' = Ended(o, "timeout")
  /\ UNCHANGED <<GLOBAL_TASK_ID, GLOBAL_STREAM_STATES, state, streamer, call, rx, ret, from, exact, used, threads>>

\* a timeout path that leaves the request registered
ExpireKeepsRequest(o) ==
  /\ pc[o] = "expired"
  /\ ret' = [ret EXCEPT ![o] = Failed("read", "Timeout")]
  /\ pc' = [pc EXCEPT ![o] = "ready"]
  /\ outbox' = Ended(o, "timeout")
  /\ UNCHANGED <<GLOBAL_TASK_ID, GLOBAL_STREAM_STATES, state, streamer, call, rx, from, exact, used, threads>>

\* a timeout path that moves the cursor past the bytes asked for
ExpireAdvances(o) ==
  /\ pc[o] = "expired"
  /\ state' = [state EXCEPT ![o] = remove_request(@, call[o].request_id)]
  /\ ret' = [ret EXCEPT ![o] = Failed("read", "Timeout")]
  /\ streamer' = [streamer EXCEPT ![o].position = @ + call[o].size]
  /\ pc' = [pc EXCEPT ![o] = "ready"]
  /\ outbox' = Ended(o, "timeout")
  /\ UNCHANGED <<GLOBAL_TASK_ID, GLOBAL_STREAM_STATES, call, rx, from, exact, used, threads>>

\* the map_err closure of the timeout: the request is removed, read fails
Expire(o) ==
  /\ pc[o] = "expired"
  /\ state' = [state EXCEPT ![o] = remove_request(@, call[o].request_id)]
  /\ ret' = [ret EXCEPT ![o] = Failed("read", "Timeout")]
  /\ pc' = [pc EXCEPT ![o] = "ready"]
  /\ outbox' = Ended(o, "timeout")
  /\ UNCHANGED <<GLOBAL_TASK_ID, GLOBAL_STREAM_STATES, streamer, call, rx, from, exact, used, threads>>

\* ----------------------------------------------------------- the completion

\* the match on (data, error) of complete_stream_request
\* a match that takes a completion without data and without error for empty data
CompletionResult_empty_data(data, error) ==
  IF ~data.none THEN [ok |-> TRUE, data |-> data.val]
  ELSE IF ~error.none THEN [ok |-> FALSE, error |-> error.val]
  ELSE [ok |-> TRUE, data |-> EmptyData]

CompletionResult(data, error) ==
  IF ~data.none THEN [ok |-> TRUE, data |-> data.val]
  ELSE IF ~error.none THEN [ok |-> FALSE, error |-> error.val]
  ELSE [ok |-> FALSE, error |-> "No data or error provided"]

\* the receiver of channel chan of operation o still exists
Receiving(o, chan) == pc[o] \in {"dispatch", "wait", "expired"} /\ call[o].chan = chan

\* request_id >> 16
TaskOf(request_id) == request_id.hi

\* complete_stream_request on SharedStates st and channels rxq: what they are afterwards
complete_stream_request(st, rxq, request_id, data, error) ==
  LET task_id == TaskOf(request_id)
  IN IF task_id \in DOMAIN GLOBAL_STREAM_STATES
     THEN LET o == GLOBAL_STREAM_STATES[task_id]
              done == complete_request(st[o], request_id)
          IN [state |-> [st EXCEPT ![o] = done.state],
              rx |-> IF ~done.sent.none /\ Receiving(o, done.sent.val)
                     THEN [rxq EXCEPT ![o] = Append(@, CompletionResult(data, error))]
                     ELSE rxq]
     ELSE [state |-> st, rx |-> rxq]

\* from, once the results of rxq that rx does not hold yet are noted as answers to request
Answered(rxq, request) ==
  [o \in Ops |-> IF Len(rxq[o]) > Len(rx[o]) THEN Append(from[o], request) ELSE from[o]]

\* the peer calls complete_stream_request for a request it was given
Deliver(m, data, error) ==
  /\ m \in outbox
  /\ LET after == complete_stream_request(state, rx, m.request_id, data, error)
     IN /\ state' = after.state
        /\ rx' = after.rx
        /\ from' = Answered(after.rx, <<m.op, m.chan>>)
  /\ UNCHANGED <<GLOBAL_TASK_ID, GLOBAL_STREAM_STATES, streamer, pc, call, ret, outbox, exact, used, threads>>

\* request ids no fetch was ever given: of no task, and of the first tasks
UnknownIds == {ComposeId(t, q) : t \in {0, 1, 77}, q \in {9}}

\* the peer calls complete_stream_request with an id it was never given
DeliverUnknown(request_id, data, error) ==
  /\ LET after == complete_stream_request(state, rx, request_id, data, error)
     IN /\ state' = after.state
        /\ rx' = after.rx
        /\ from' = Answered(after.rx, <<0, 0>>)
  /\ UNCHANGED <<GLOBAL_TASK_ID, GLOBAL_STREAM_STATES, streamer, pc, call, ret, outbox, exact, used, threads>>

\* ------------------------------------------------------ end of an operation

\* the spawn_blocking closure returns (Ok or Err): the streamer is dropped
WorkerReturns(o) ==
  /\ pc[o] = "ready"
  /\ pc' = [pc EXCEPT ![o] = "finished"]
  /\ UNCHANGED <<GLOBAL_TASK_ID, GLOBAL_STREAM_STATES, state, streamer, call, rx, ret, outbox, from, exact, used, threads>>

\* the future resolved: the resolver unregisters the session and builds the result
Resolve(o) ==
  /\ pc[o] = "finished"
  /\ GLOBAL_STREAM_STATES' = unregister_stream_state(GLOBAL_STREAM_STATES, state[o].task_id)
  /\ pc' = [pc EXCEPT ![o] = "done"]
  /\ UNCHANGED <<GLOBAL_TASK_ID, state, streamer, call, rx, ret, outbox, from, exact, used, threads>>

\* the blocking task panicked: the join error leaves the future through `?`,
\* the resolver never runs and the promise is rejected
JoinError(o) ==
  /\ pc[o] = "panicked"
  /\ pc' = [pc EXCEPT ![o] = "done"]
  /\ UNCHANGED <<GLOBAL_TASK_ID, GLOBAL_STREAM_STATES, state, streamer, call, rx, ret, outbox, from, exact, used, threads>>

\* --------------------------------------------------------------------- seek

\* 64-bit operands are kept as [top, low], the value top * 2^63 + low with
\* low of small magnitude: the values near 0, near 2^63 and near 2^64.
\* A SeekFrom without a top field has top 0.
TopOf(pos_from) == IF "top" \in DOMAIN pos_from THEN pos_from.top ELSE 0

\* a u64 read as i64 (`offset as i64`): values from 2^63 on lose 2^64
as_i64(top, low) ==
  IF top >= 2 \/ (top = 1 /\ low >= 0) THEN [top |-> top - 2, low |-> low]
  ELSE [top |-> top, low |-> low]

\* the sum leaves the range of i64 (the left operand is never negative here)
AddOverflows(top, low) == top >= 2 \/ (top = 1 /\ low >= 0)

\* a seek whose End origin counts the offset backwards from the end
SeekTarget_end_backwards(file_size, position, pos_from) ==
  CASE pos_from.kind = "Start" ->
         [top |-> as_i64(TopOf(pos_from), pos_from.offset).top,
          low |-> as_i64(TopOf(pos_from), pos_from.offset).low, overflow |-> FALSE]
    [] pos_from.kind = "End" -> [top |-> 0 - TopOf(pos_from), low |-> file_size - pos_from.offset, overflow |-> FALSE]
    [] pos_from.kind = "Current" -> [top |-> TopOf(pos_from), low |-> position + pos_from.offset, overflow |-> FALSE]

\* the match of seek: the i64 result; for a sum that overflows, the wrapped
\* result, with the overflow noted
SeekTarget(file_size, position, pos_from) ==
  LET add(base) ==
        IF AddOverflows(TopOf(pos_from), base + pos_from.offset)
        THEN [top |-> TopOf(pos_from) - 2, low |-> base + pos_from.offset, overflow |-> TRUE]
        ELSE [top |-> TopOf(pos_from), low |-> base + pos_from.offset, overflow |-> FALSE]
  IN CASE pos_from.kind = "Start" ->
            [top |-> as_i64(TopOf(pos_from), pos_from.offset).top,
             low |-> as_i64(TopOf(pos_from), pos_from.offset).low, overflow |-> FALSE]
       [] pos_from.kind = "End" -> add(file_size)
       [] pos_from.kind = "Current" -> add(position)

\* new_pos < 0
Negative(v) == v.top < 0 \/ (v.top = 0 /\ v.low < 0)

\* a seek that counts a request for the block it lands in
Seek_counts_request(o, pos_from, maxcalls) ==
  /\ pc[o] = "ready"
  /\ used.calls[o] < maxcalls
  /\ used' = [used EXCEPT !.calls[o] = @ + 1]
  /\ state' = [state EXCEPT ![o].stats.total_requests = @ + 1]
  /\ LET new_pos == SeekTarget(streamer[o].file_size, streamer[o].position, pos_from)
     IN \/ /\ new_pos.overflow
           /\ pc' = [pc EXCEPT ![o] = "panicked"]
           /\ UNCHANGED <<streamer, ret>>
        \/ /\ IF Negative(new_pos)
              THEN /\ ret' = [ret EXCEPT ![o] = Failed("seek", "InvalidSeek")]
                   /\ UNCHANGED streamer
              ELSE /\ new_pos.top = 0
                   /\ ret' = [ret EXCEPT ![o] = [kind |-> "ok", op |-> "seek", pos |-> new_pos.low]]
                   /\ streamer' = [streamer EXCEPT ![o].position = new_pos.low]
           /\ UNCHANGED pc
  /\ UNCHANGED <<GLOBAL_TASK_ID, GLOBAL_STREAM_STATES, call, rx, outbox, from, exact, threads>>

\* impl Seek for JsFileStreamer.  An i64 sum that overflows panics in a
\* build with overflow checks and wraps in one without.  The inputs are
\* chosen so that a seek that succeeds lands below 2^31 (top 0).
Seek(o, pos_from, maxcalls) ==
  /\ pc[o] = "ready"
  /\ used.calls[o] < maxcalls
  /\ used' = [used EXCEPT !.calls[o] = @ + 1]
  /\ LET new_pos == SeekTarget(streamer[o].file_size, streamer[o].position, pos_from)
     IN \/ /\ new_pos.overflow
           /\ pc' = [pc EXCEPT ![o] = "panicked"]
           /\ UNCHANGED <<streamer, ret>>
        \/ /\ IF Negative(new_pos)
              THEN /\ ret' = [ret EXCEPT ![o] = Failed("seek", "InvalidSeek")]
                   /\ UNCHANGED streamer
              ELSE /\ new_pos.top = 0
                   /\ ret' = [ret EXCEPT ![o] = [kind |-> "ok", op |-> "seek", pos |-> new_pos.low]]
                   /\ streamer' = [streamer EXCEPT ![o].position = new_pos.low]
           /\ UNCHANGED pc
  /\ UNCHANGED <<GLOBAL_TASK_ID, GLOBAL_STREAM_STATES, state, call, rx, outbox, from, exact, threads>>

\* ------------------------------------------------------------------- bursts

\* n read calls in a row at the same position, each one missing the cache,
\* dispatched, answered with an error before its wait expires, and failing
\* with Rejected: n times Read, Dispatch, Deliver(error), Receive
ErrorReadBurst(o, n) ==
  /\ pc[o] = "ready"
  /\ used.reads[o] < MaxBursts
  /\ used' = [used EXCEPT !.reads[o] = @ + 1]
  /\ streamer[o].position < streamer[o].file_size
  /\ cache_block_offset(streamer[o].position) \notin DOMAIN state[o].cache
  /\ state[o].task_id \in DOMAIN GLOBAL_STREAM_STATES
  /\ GLOBAL_STREAM_STATES[state[o].task_id] = o
  /\ state' = [state EXCEPT ![o].stats.cache_misses = @ + n,
                            ![o].stats.total_requests = @ + n,
                            ![o].next_request_seq = (@ + n) % SEQ_SPACE]
  /\ ret' = [ret EXCEPT ![o] = FailedWith("read", "Rejected", "fetch failed")]
  /\ UNCHANGED <<GLOBAL_TASK_ID, GLOBAL_STREAM_STATES, streamer, pc, call, rx, outbox, from, exact, threads>>

\* n whole operations in a row, none of which reads: each draws a task id,
\* registers, fails in its worker and unregisters (n times StartOperation,
\* WorkerReturns, Resolve of operations that are not followed)
OperationBurst(n) ==
  /\ used.ops < MaxBursts
  /\ used' = [used EXCEPT !.ops = @ + 1]
  /\ GLOBAL_TASK_ID' = GLOBAL_TASK_ID + n
  /\ GLOBAL_STREAM_STATES' =
       [t \in {k \in DOMAIN GLOBAL_STREAM_STATES :
                 (k + TASK_SPACE - next_task_id(GLOBAL_TASK_ID)) % TASK_SPACE >= n}
          |-> GLOBAL_STREAM_STATES[t]]
  /\ UNCHANGED <<state, streamer, pc, call, rx, ret, outbox, from, exact, threads>>

\* --------------------------------------------------------- specifications

\* One operation and its consumer: reads and seeks over a source of two
\* blocks, a peer that answers with the window, a short prefix of it, an
\* error or nothing, at any time and any number of times.

FileSizes == {400000}

BufLens == {10, 300000}

SeekFroms == {[kind |-> "Start", offset |-> 300000], [kind |-> "End", offset |-> -1],
              [kind |-> "Current", offset |-> -60]}

ReadBursts == {SEQ_SPACE - 1}

Payloads(m) == {Window(m.op, m.offset, m.size), Window(m.op, m.offset, ShortLen)}

Datas(m) == {None} \cup {Some(d) : d \in Payloads(m)}

Errors == {None, Some("fetch failed")}

Next ==
  \/ \E o \in {1} : StartOperation(o, FileSizes)
  \/ \E o \in {1} : StartOperationFails(o)
  \/ \E o \in Ops, buf_len \in BufLens : Read(o, buf_len, MaxCalls)
  \/ \E o \in Ops, pos_from \in SeekFroms : Seek(o, pos_from, MaxCalls)
  \/ \E o \in Ops : Dispatch(o)
  \/ \E o \in Ops : DispatchRejected(o)
  \/ \E o \in Ops : Receive(o)
  \/ \E o \in Ops : Timeout(o)
  \/ \E o \in Ops : Expire(o)
  \/ \E m \in outbox : \E data \in Datas(m), error \in Errors : Deliver(m, data, error)
  \/ \E request_id \in UnknownIds, error \in Errors : DeliverUnknown(request_id, None, error)
  \/ \E o \in Ops : WorkerReturns(o)
  \/ \E o \in Ops : Resolve(o)
  \/ \E o \in Ops : JoinError(o)
  \/ \E o \in Ops, n \in ReadBursts : ErrorReadBurst(o, n)

Spec == Init /\ [][Next]_vars

\* The calling thread of a fetch keeps running: fetcher.call returns a
\* status, recv_timeout returns a result that is on the channel or runs out
\* after its 30 seconds, and the timeout closure runs to its end.
FetchFairness ==
  \A o \in Ops :
    /\ WF_vars(Dispatch(o) \/ DispatchRejected(o))
    /\ WF_vars(Receive(o))
    /\ WF_vars(Timeout(o))
    /\ WF_vars(Expire(o))

SpecFair == Spec /\ FetchFairness

\* Several operations side by side, each making a few short reads, and runs
\* of operations in between that wrap the task counter.

SessionBufLens == {10}

OperationBursts == {TASK_SPACE - 1}

SessionDatas(m) == {Some(Window(m.op, m.offset, m.size))}

NextSessions ==
  \/ \E o \in Ops : StartOperation(o, FileSizes)
  \/ \E o \in Ops, buf_len \in SessionBufLens : Read(o, buf_len, MaxSessionCalls)
  \/ \E o \in Ops : Dispatch(o)
  \/ \E o \in Ops : Receive(o)
  \/ \E o \in Ops : Timeout(o)
  \/ \E o \in Ops : Expire(o)
  \/ \E m \in outbox : \E data \in SessionDatas(m) : Deliver(m, data, None)
  \/ \E o \in Ops : WorkerReturns(o)
  \/ \E o \in Ops : Resolve(o)
  \/ \E n \in OperationBursts : OperationBurst(n)
  \/ \E o \in Ops, n \in ReadBursts : ErrorReadBurst(o, n)

SpecSessions == Init /\ [][NextSessions]_vars

\* One operation reading a source of more blocks than the cache holds, block
\* after block, going back to the start once the cache is full; the peer answers every
\* request with its window.

ScanFileSizes == {(MAX_CACHE_BLOCKS + 2) * CACHE_BLOCK_SIZE + 5}

ScanBufLens == {200000}

ScanSeekFroms ==
  {[kind |-> "Start", offset |-> 0], [kind |-> "Start", offset |-> 300000],
   [kind |-> "Start", offset |-> MAX_CACHE_BLOCKS * CACHE_BLOCK_SIZE]}

NextScan ==
  \/ \E o \in {1} : StartOperation(o, ScanFileSizes)
  \/ \E o \in Ops, buf_len \in ScanBufLens : Read(o, buf_len, MaxScanCalls)
  \/ \E o \in Ops, pos_from \in ScanSeekFroms :
       /\ IF pos_from.offset = 300000
          THEN state[o].stats = NoStats /\ streamer[o].position = 0
          ELSE Cardinality(DOMAIN state[o].cache) = MAX_CACHE_BLOCKS
       /\ Seek(o, pos_from, MaxScanCalls)
  \/ \E o \in Ops : Dispatch(o)
  \/ \E o \in Ops : Receive(o)
  \/ \E m \in outbox : \E data \in SessionDatas(m) : Deliver(m, data, None)
  \/ \E o \in Ops : WorkerReturns(o)
  \/ \E o \in Ops : Resolve(o)

SpecScan == Init /\ [][NextScan]_vars

\* One operation whose consumer reads with buffers of several lengths and
\* seeks from all three origins, past the end, before the start and with
\* offsets at the limits of the 64-bit types; the peer answers every dispatch
\* with the window asked for.

\* read/seek calls of that consumer
MaxAdapterCalls == 5

AdapterFileSizes == {400000}

AdapterBufLens == {10, 100, 100000}

\* Start(2^63 + 5) and End(i64::MAX) are the offsets with a top
AdapterSeekFroms ==
  {[kind |-> "Start", offset |-> 50], [kind |-> "Start", offset |-> 300000],
   [kind |-> "End", offset |-> -1], [kind |-> "End", offset |-> 5],
   [kind |-> "Current", offset |-> -60],
   [kind |-> "Start", top |-> 1, offset |-> 5], [kind |-> "End", top |-> 1, offset |-> -1]}

NextAdapter ==
  \/ \E o \in {1} : StartOperation(o, AdapterFileSizes)
  \/ \E o \in Ops, buf_len \in AdapterBufLens : Read(o, buf_len, MaxAdapterCalls)
  \/ \E o \in Ops, pos_from \in AdapterSeekFroms : Seek(o, pos_from, MaxAdapterCalls)
  \/ \E o \in Ops : Dispatch(o)
  \/ \E o \in Ops : Receive(o)
  \/ \E m \in outbox : \E data \in SessionDatas(m) : Deliver(m, data, None)
  \/ \E o \in Ops : WorkerReturns(o)
  \/ \E o \in Ops : Resolve(o)
  \/ \E o \in Ops : JoinError(o)

SpecAdapter == Init /\ [][NextAdapter]_vars

\* One operation on a source of 4096 blocks whose consumer seeks to an
\* offset at the start, just after the start or at the last byte of a block
\* and reads one byte there, so that fetch_block computes its block offset.

\* the blocks sampled are 0 .. MaxSampleBlock and the last one
MaxSampleBlock == 40

\* seek and read calls of that consumer
MaxOffsetCalls == 2

OffsetFileSizes == {4096 * CACHE_BLOCK_SIZE}

SampleOffsets ==
  {k * CACHE_BLOCK_SIZE + d : k \in (0 .. MaxSampleBlock) \cup {4095}, d \in {0, 1, 100, CACHE_BLOCK_SIZE - 1}}

NextOffsets ==
  \/ \E o \in {1} : StartOperation(o, OffsetFileSizes)
  \/ \E o \in Ops, x \in SampleOffsets : Seek(o, [kind |-> "Start", offset |-> x], MaxOffsetCalls)
  \/ \E o \in Ops : Read(o, 1, MaxOffsetCalls)
  \/ \E o \in Ops : Dispatch(o)

SpecOffsets == Init /\ [][NextOffsets]_vars

\* One operation whose peer answers a request with data of any length:
\* none, less than asked for, what was asked for, or more than a block.

\* read/seek calls of that consumer
MaxPayloadCalls == 3

\* bytes a payload has beyond a whole block
OverLen == 10

PayloadBufLens == {10, 300000}

PayloadSeekFroms == {[kind |-> "Start", offset |-> 300000]}

PayloadDatas(m) ==
  {Some(d) : d \in {EmptyData, Window(m.op, m.offset, ShortLen), Window(m.op, m.offset, m.size),
                    Window(m.op, m.offset, CACHE_BLOCK_SIZE + OverLen)}}

NextPayloads ==
  \/ \E o \in {1} : StartOperation(o, FileSizes)
  \/ \E o \in Ops, buf_len \in PayloadBufLens : Read(o, buf_len, MaxPayloadCalls)
  \/ \E o \in Ops, pos_from \in PayloadSeekFroms : Seek(o, pos_from, MaxPayloadCalls)
  \/ \E o \in Ops : Dispatch(o)
  \/ \E o \in Ops : Receive(o)
  \/ \E m \in outbox : \E data \in PayloadDatas(m) : Deliver(m, data, None)
  \/ \E o \in Ops : WorkerReturns(o)
  \/ \E o \in Ops : Resolve(o)
  \/ \E o \in Ops : JoinError(o)

SpecPayloads == Init /\ [][NextPayloads]_vars

\* ---------------------------------------------------------------------- C1

AnyData == {None, Some(EmptyData), Some(Window(1, 0, CACHE_BLOCK_SIZE))}

\* complete_stream_request(request_id, ..) changes no SharedState and no channel
NoOp(request_id) ==
  \A data \in AnyData, error \in Errors :
    complete_stream_request(state, rx, request_id, data, error) = [state |-> state, rx |-> rx]

\* the id of request m is registered again, by a later fetch of its operation
Reissued(m) ==
  /\ m.request_id \in DOMAIN state[m.op].pending_requests
  /\ state[m.op].pending_requests[m.request_id] # m.chan

\* C2 (the wait): a fetch waiting on an empty channel leaves its wait only
\* through the timeout, and the timeout path ends the read with Timeout,
\* which is not Rejected, with the request no longer registered.
TimeoutStep ==
  \A o \in Ops :
    /\ (pc[o] = "wait" /\ rx[o] = <<>> /\ rx'[o] = <<>> /\ pc'[o] # "wait") => pc'[o] = "expired"
    /\ (pc[o] = "expired" /\ pc'[o] # "expired")
         => /\ pc'[o] = "ready"
            /\ ret'[o] = Failed("read", "Timeout")
            /\ ret'[o] # Failed("read", "Rejected")
            /\ call[o].request_id \notin DOMAIN state'[o].pending_requests

\* C2 (the late completion): once a fetch has failed with Timeout, a
\* completion for its request id changes no registry, cache, stats or channel
\* and leaves the returned Timeout as it is, as long as the id has not been
\* issued again.
LateCompletionNoOp ==
  \A m \in outbox : (m.fate = "timeout" /\ ~Reissued(m)) => NoOp(m.request_id)

DeliverTwiceIdempotent ==
  /\ \A o \in Ops : Len(rx[o]) <= 1
  /\ \A m \in outbox : \A d1 \in Datas(m), d2 \in AnyData, e1 \in Errors, e2 \in Errors :
       LET once == complete_stream_request(state, rx, m.request_id, d1, e1)
           twice == complete_stream_request(once.state, once.rx, m.request_id, d2, e2)
       IN twice = once

\* a waiting fetch whose result has been delivered once
DeliverTwiceIdempotentWitness ==
  \E m \in outbox :
    /\ pc[m.op] = "wait" /\ call[m.op].chan = m.chan
    /\ Len(rx[m.op]) = 1
    /\ m.request_id \notin DOMAIN state[m.op].pending_requests

\* the task of request_id has no registered session, or its session holds no
\* pending request under request_id
NoSlot(request_id) ==
  \/ TaskOf(request_id) \notin DOMAIN GLOBAL_STREAM_STATES
  \/ request_id \notin DOMAIN state[GLOBAL_STREAM_STATES[TaskOf(request_id)]].pending_requests

\* C8: complete_stream_request with an id that has no slot (no session for
\* its task, an id never issued, an id already resolved) changes nothing.
UnknownCompletionNoOp ==
  \A request_id \in UnknownIds \cup {m.request_id : m \in outbox} :
    NoSlot(request_id) => NoOp(request_id)

\* all three cases at once: an id of a task without session, an id never
\* issued of a registered session that has a request pending, and an id
\* already resolved of that session
UnknownCompletionNoOpWitness ==
  /\ \E request_id \in UnknownIds : TaskOf(request_id) \notin DOMAIN GLOBAL_STREAM_STATES
  /\ \E request_id \in UnknownIds :
       /\ TaskOf(request_id) \in DOMAIN GLOBAL_STREAM_STATES
       /\ DOMAIN state[GLOBAL_STREAM_STATES[TaskOf(request_id)]].pending_requests # {}
  /\ \E m \in outbox : m.fate = "data" /\ NoSlot(m.request_id)

\* ---------------------------------------------------------------------- C4

\* the operation is registered and has not concluded
Live(o) == pc[o] \notin {"init", "done"}

\* C4: for two live sessions a, b with distinct task ids, a completion
\* carrying an id dispatched by a leaves b's SharedState and channel as they
\* are, and reaches a's channel only while a waits under that very id.
CompletionsNotCrossed ==
  \A m \in outbox : \A b \in Ops :
    (b # m.op /\ Live(m.op) /\ Live(b) /\ state[b].task_id # state[m.op].task_id)
      => \A data \in Datas(m), error \in Errors :
           LET after == complete_stream_request(state, rx, m.request_id, data, error)
           IN /\ after.state[b] = state[b]
              /\ after.rx[b] = rx[b]
              /\ after.rx[m.op] # rx[m.op]
                   => (pc[m.op] \in {"dispatch", "wait", "expired"} /\ call[m.op].request_id = m.request_id)

\* two live sessions with distinct task ids, both waiting in a fetch, each with a dispatched request
CompletionsNotCrossedWitness ==
  \E a \in Ops, b \in Ops :
    /\ a # b /\ state[a].task_id # state[b].task_id
    /\ pc[a] = "wait" /\ pc[b] = "wait"
    /\ \E m \in outbox : m.op = a /\ m.chan = call[a].chan
    /\ \E m \in outbox : m.op = b /\ m.chan = call[b].chan
    /\ state[a].stats.total_requests > 1

\* ---------------------------------------------------------------------- C5

\* the results in the channel of the fetch operation o waits in that answer
\* another request, one whose fetch has timed out
StaleResults(o) ==
  {m \in outbox : /\ m.fate = "timeout"
                  /\ \E i \in 1 .. Len(from[o]) : from[o][i] = <<m.op, m.chan>>
                  /\ <<m.op, m.chan>> # <<o, call[o].chan>>}

\* C5 as claimed: a completion for a request whose fetch has timed out is
\* never received by another fetch, however many requests later.
StaleCompletionNeverReceived ==
  \A o \in Ops : pc[o] = "wait" => StaleResults(o) = {}

\* C5 as amended: another fetch receives the late completion of a timed-out
\* request only under the same request id: in the same session not before
\* SEQ_SPACE further requests, in another session only with the same task id.
StaleCompletionOnlyUnderSameId ==
  \A o \in Ops : pc[o] = "wait" =>
    \A m \in StaleResults(o) :
      /\ m.request_id = call[o].request_id
      /\ m.op = o => call[o].chan - m.chan >= SEQ_SPACE
      /\ m.op # o => state[m.op].task_id = state[o].task_id

\* a waiting fetch holds the late completion of a request that timed out
StaleCompletionWitness ==
  \E o \in Ops : pc[o] = "wait" /\ StaleResults(o) # {}

\* ---------------------------------------------------------------------- C6

\* C6: no cache ever holds more than MAX_CACHE_BLOCKS blocks.
CacheWithinCapacity ==
  \A o \in Ops : Cardinality(DOMAIN state[o].cache) <= MAX_CACHE_BLOCKS

\* a full cache that has already evicted its first block for a later one
CacheWithinCapacityWitness ==
  \E o \in Ops :
    /\ Cardinality(DOMAIN state[o].cache) = MAX_CACHE_BLOCKS
    /\ 0 \notin DOMAIN state[o].cache
    /\ MAX_CACHE_BLOCKS * CACHE_BLOCK_SIZE \in DOMAIN state[o].cache

\* ---------------------------------------------------------------------- C7

\* requests operation o has dispatched
Dispatched(o) == {m \in outbox : m.op = o}

\* the blocks operation o has asked the peer for
DispatchedOffsets(o) == {m.offset : m \in Dispatched(o)}

\* the block offsets from first to last
BlocksBetween(first, last) ==
  {k * CACHE_BLOCK_SIZE : k \in first \div CACHE_BLOCK_SIZE .. last \div CACHE_BLOCK_SIZE}

\* C7 (cold cache): while the cache has not filled up the consumer has read
\* one range [start, position) by repeated reads. A fetch asks for the block
\* of the position it reads at, no block is asked for twice, and the blocks
\* asked for are the blocks the range overlaps, from the block of the first
\* position read to the block of the last, each with one dispatch.
OneDispatchPerBlock ==
  \A o \in Ops :
    (pc[o] \in {"ready", "wait"} /\ Cardinality(DOMAIN state[o].cache) < MAX_CACHE_BLOCKS)
      => /\ \A m, n \in Dispatched(o) : m.offset = n.offset => m = n
         /\ pc[o] = "wait" =>
              /\ call[o].block_offset = cache_block_offset(streamer[o].position)
              /\ \E m \in Dispatched(o) : m.chan = call[o].chan /\ m.offset = call[o].block_offset
         /\ Dispatched(o) = {} => state[o].stats.total_bytes_fetched = 0
         /\ Dispatched(o) # {} =>
              LET first == CHOOSE b \in DispatchedOffsets(o) : \A c \in DispatchedOffsets(o) : b <= c
                  last == IF pc[o] = "wait" THEN streamer[o].position ELSE streamer[o].position - 1
              IN /\ first <= last
                 /\ DispatchedOffsets(o) = BlocksBetween(first, last)
                 /\ Cardinality(Dispatched(o)) = Cardinality(BlocksBetween(first, last))
         /\ (ret[o].kind = "ok" /\ ret[o].op = "read" /\ ret[o].data.len > 0)
              => BlocksBetween(ret[o].pos, ret[o].pos + ret[o].data.len - 1) \subseteq DispatchedOffsets(o)

\* C7 (re-read): a read that starts in a block the cache holds dispatches nothing.
CachedReadDispatchesNothing ==
  \A o \in Ops :
    (pc[o] = "ready" /\ cache_block_offset(streamer[o].position) \in DOMAIN state[o].cache)
      => (pc'[o] \in {"ready", "finished"} /\ Dispatched(o)' = Dispatched(o))

\* C7: both parts.
DispatchPerBlock == []OneDispatchPerBlock /\ [][CachedReadDispatchesNothing]_vars

\* a range over several blocks has been read, with reads served from the
\* cache, and a block read before is read again from the cache
DispatchPerBlockWitness ==
  \E o \in Ops :
    /\ Cardinality(Dispatched(o)) >= 3
    /\ state[o].stats.cache_hits >= 3
    /\ ret[o].kind = "ok" /\ ret[o].op = "read" /\ ret[o].pos = 0
    /\ state[o].stats.total_requests = MAX_CACHE_BLOCKS
    /\ 0 \in DispatchedOffsets(o) /\ 0 \in DOMAIN state[o].cache

\* ------------------------------------------------------------------ C9, C10

\* C9 as claimed: an operation that has concluded has no entry left in the registry.
ConcludedOperationUnregistered ==
  \A o \in Ops : pc[o] = "done" =>
    \A t \in DOMAIN GLOBAL_STREAM_STATES : GLOBAL_STREAM_STATES[t] # o

\* C10 as claimed: live sessions hold distinct task ids, and the registry
\* entry of each live session is that session.
LiveSessionsDistinct ==
  \A a \in Ops : Live(a) =>
    /\ state[a].task_id \in DOMAIN GLOBAL_STREAM_STATES
    /\ GLOBAL_STREAM_STATES[state[a].task_id] = a
    /\ \A b \in Ops : (Live(b) /\ b # a) => state[b].task_id # state[a].task_id

\* --------------------------------------------------------------------- C11

\* the frame of a call that returns at once: nothing but ret and the call count changes
OnlyReturns(o) ==
  /\ state' = state /\ streamer' = streamer /\ outbox' = outbox /\ pc' = pc
  /\ rx' = rx /\ call' = call
  /\ GLOBAL_STREAM_STATES' = GLOBAL_STREAM_STATES /\ GLOBAL_TASK_ID' = GLOBAL_TASK_ID

\* C11 (one step): a read at a position at or past the end of the source
\* returns 0 bytes, dispatches nothing and leaves stats, cache and position alone.
EndOfSourceRead ==
  \A o \in Ops, buf_len \in AdapterBufLens :
    (streamer[o].position >= streamer[o].file_size /\ Read(o, buf_len, MaxAdapterCalls))
      => /\ ret'[o] = ReadOk(streamer[o].position, EmptyData)
         /\ OnlyReturns(o)

\* C11: read with position >= source length returns 0 without error,
\* dispatch, or change of stats, cache and position, also after a seek past the end.
ReadAtEndReturnsZero == [][EndOfSourceRead]_vars

\* a read after a seek past the end has returned 0 bytes, with a block in the cache
ReadAtEndReturnsZeroWitness ==
  \E o \in Ops :
    /\ ret[o] = ReadOk(streamer[o].file_size + 5, EmptyData)
    /\ streamer[o].position = streamer[o].file_size + 5
    /\ DOMAIN state[o].cache # {}

\* --------------------------------------------------------------------- C12

\* C12 (the call): a read before the end asks fetch_block for
\* min(len(buffer), source length - position) bytes at position; served from
\* the cache it returns at most that many and advances position by as many.
ReadRequestsWithinSource ==
  \A o \in Ops, buf_len \in AdapterBufLens :
    (streamer[o].position < streamer[o].file_size /\ Read(o, buf_len, MaxAdapterCalls))
      => LET to_read == Min(buf_len, streamer[o].file_size - streamer[o].position)
         IN IF pc'[o] = "dispatch"
            THEN call'[o].offset = streamer[o].position /\ call'[o].size = to_read
            ELSE /\ ret'[o].kind = "ok" /\ ret'[o].pos = streamer[o].position
                 /\ ret'[o].data.len <= to_read
                 /\ streamer'[o].position = streamer[o].position + ret'[o].data.len

\* C12 (the fetch): a read that succeeds after its fetch returns no more
\* than it asked for and advances position by what it returns.
ReadAdvancesByCount ==
  \A o \in Ops :
    (pc[o] = "wait" /\ pc'[o] = "ready" /\ ret'[o].kind = "ok")
      => /\ ret'[o].op = "read" /\ ret'[o].pos = call[o].offset
         /\ ret'[o].data.len <= call[o].size
         /\ streamer'[o].position = streamer[o].position + ret'[o].data.len

\* C12 (the cursor): a read that returned bytes left the cursor within the source.
ReadStaysWithinSource ==
  \A o \in Ops :
    (ret[o].kind = "ok" /\ ret[o].op = "read" /\ ret[o].data.len > 0)
      => ret[o].pos + ret[o].data.len <= streamer[o].file_size

\* C12: the three parts.
ReadCountAndPosition ==
  [][ReadRequestsWithinSource /\ ReadAdvancesByCount]_vars /\ []ReadStaysWithinSource

\* a read asked for less than its buffer (clamped to the end of the source),
\* was fetched and advanced the cursor to the end
ReadCountAndPositionWitness ==
  \E o \in Ops :
    /\ ret[o].kind = "ok" /\ ret[o].op = "read" /\ ret[o].pos = 300000
    /\ ret[o].data.len = 100000
    /\ streamer[o].position = streamer[o].file_size
    /\ state[o].stats.cache_hits = 0

\* --------------------------------------------------------------------- C13

\* the position C13 computes: offset, source length + offset or position +
\* offset, as a number (top * 2^63 + low), without any wraparound
ClaimedSeekTarget(file_size, position, pos_from) ==
  CASE pos_from.kind = "Start" -> [top |-> TopOf(pos_from), low |-> pos_from.offset]
    [] pos_from.kind = "End" -> [top |-> TopOf(pos_from), low |-> file_size + pos_from.offset]
    [] pos_from.kind = "Current" -> [top |-> TopOf(pos_from), low |-> position + pos_from.offset]

\* C13 (one step): seek fails with InvalidSeek when the computed position is
\* negative and leaves the position alone; otherwise it sets the position to
\* the computed value and returns it.
SeekStepAsComputed ==
  \A o \in Ops, pos_from \in AdapterSeekFroms :
    Seek(o, pos_from, MaxAdapterCalls)
      => LET v == ClaimedSeekTarget(streamer[o].file_size, streamer[o].position, pos_from)
         IN IF Negative(v)
            THEN ret'[o] = Failed("seek", "InvalidSeek") /\ streamer' = streamer /\ pc' = pc
            ELSE /\ pc' = pc
                 /\ ret'[o].kind = "ok" /\ ret'[o].op = "seek"
                 /\ v = [top |-> 0, low |-> streamer'[o].position]
                 /\ ret'[o].pos = streamer'[o].position

\* C13 as claimed: for every representable offset seek computes the position
\* arithmetically, fails exactly when it is negative, and otherwise sets and returns it.
SeekAsComputed == [][SeekStepAsComputed]_vars

\* --------------------------------------------------------------------- C14

\* the one request a Dispatch step of operation o hands to the peer
Sent(o) == {m \in outbox' : m.op = o /\ \A n \in outbox : <<n.op, n.chan>> # <<m.op, m.chan>>}

\* the fetch in progress of operation o is for `size` bytes at `offset`
Fetching(o, offset, size) == call[o].offset = offset /\ call[o].size = size

\* C14 (first read): on a cold session a read of 100 bytes at offset 0
\* counts one miss and dispatches (0, 262144, rid), rid being the id registered.
ColdReadDispatchesBlock ==
  \A o \in Ops :
    /\ (Read(o, 100, MaxAdapterCalls) /\ streamer[o].position = 0
          /\ state[o].stats = NoStats /\ DOMAIN state[o].cache = {})
         => /\ pc'[o] = "dispatch"
            /\ state'[o].stats.cache_misses = 1 /\ state'[o].stats.cache_hits = 0
            /\ call'[o].request_id \in DOMAIN state'[o].pending_requests
    /\ (Dispatch(o) /\ Fetching(o, 0, 100) /\ state[o].stats.total_requests = 1)
         => \E m \in Sent(o) :
              /\ Sent(o) = {m}
              /\ m.offset = 0 /\ m.size = CACHE_BLOCK_SIZE /\ m.request_id = call[o].request_id

\* C14 (its result): once 262144 bytes are delivered that read returns 100
\* bytes, with cache_misses = 1.
ColdReadReturns ==
  \A o \in Ops :
    (Receive(o) /\ Fetching(o, 0, 100) /\ state[o].stats.total_requests = 1
       /\ Head(rx[o]).ok /\ Head(rx[o]).data.len = CACHE_BLOCK_SIZE)
      => /\ ret'[o] = ReadOk(0, Window(o, 0, 100))
         /\ state'[o].stats.cache_misses = 1 /\ state'[o].stats.cache_hits = 0

\* C14 (second read): a following read of 10 bytes at offset 50 is served
\* from the cache, with cache_hits = 1 and no dispatch.
FollowingReadHits ==
  \A o \in Ops :
    (Read(o, 10, MaxAdapterCalls) /\ streamer[o].position = 50
       /\ state[o].stats.cache_misses = 1 /\ state[o].stats.cache_hits = 0
       /\ 0 \in DOMAIN state[o].cache)
      => /\ ret'[o] = ReadOk(50, Window(o, 50, 10))
         /\ state'[o].stats.cache_hits = 1 /\ state'[o].stats.cache_misses = 1
         /\ outbox' = outbox /\ pc' = pc

\* C14 (third read): a read of 100000 bytes at offset 300000 of the 400000
\* bytes dispatches (262144, 137856, rid2), rid2 a new id.
LastBlockReadDispatchesRest ==
  \A o \in Ops :
    /\ (Read(o, 100000, MaxAdapterCalls) /\ streamer[o].position = 300000
          /\ streamer[o].file_size = 400000 /\ CACHE_BLOCK_SIZE \notin DOMAIN state[o].cache)
         => /\ pc'[o] = "dispatch"
            /\ call'[o].block_offset = CACHE_BLOCK_SIZE /\ call'[o].fetch_size = 137856
    /\ (Dispatch(o) /\ Fetching(o, 300000, 100000) /\ streamer[o].file_size = 400000)
         => \E m \in Sent(o) :
              /\ Sent(o) = {m}
              /\ m.offset = CACHE_BLOCK_SIZE /\ m.size = 137856 /\ m.request_id = call[o].request_id
              /\ \A n \in Dispatched(o) : n.request_id # m.request_id

\* C14: the scenario of the 400000-byte source, step by step.
BlockScenario ==
  [][ColdReadDispatchesBlock /\ ColdReadReturns /\ FollowingReadHits /\ LastBlockReadDispatchesRest]_vars

\* the end of the scenario: five calls (read, seek, read, seek, read), one
\* hit, the first block fetched and cached, the rest of the source asked for
BlockScenarioWitness ==
  \E o \in Ops :
    /\ used.calls[o] = 5
    /\ pc[o] = "wait" /\ Fetching(o, 300000, 100000)
    /\ state[o].stats.cache_hits = 1 /\ state[o].stats.cache_misses = 2
    /\ state[o].stats.total_bytes_fetched = CACHE_BLOCK_SIZE
    /\ {<<m.offset, m.size>> : m \in Dispatched(o)} = {<<0, CACHE_BLOCK_SIZE>>, <<CACHE_BLOCK_SIZE, 137856>>}

\* --------------------------------------------------------------------- C15

\* the source of the scenario and its last byte
LastByte(o) == streamer[o].file_size = 400000 /\ streamer[o].position = 399999

\* C15 (seek): seek(End, -1) on 400000 bytes sets the position to 399999.
SeekToLastByte ==
  \A o \in Ops :
    (Seek(o, [kind |-> "End", offset |-> -1], MaxAdapterCalls) /\ streamer[o].file_size = 400000)
      => /\ streamer'[o].position = 399999
         /\ ret'[o] = [kind |-> "ok", op |-> "seek", pos |-> 399999]

\* C15 (read): a read into a 10-byte buffer there returns exactly the last
\* byte and leaves the position at 400000, from the cache or after its fetch.
ReadLastByte ==
  \A o \in Ops :
    /\ (Read(o, 10, MaxAdapterCalls) /\ LastByte(o))
         => IF pc'[o] = "dispatch"
            THEN call'[o].offset = 399999 /\ call'[o].size = 1
            ELSE /\ ret'[o] = ReadOk(399999, Window(o, 399999, 1))
                 /\ streamer'[o].position = 400000
    /\ (Receive(o) /\ Fetching(o, 399999, 1) /\ LastByte(o))
         => /\ ret'[o] = ReadOk(399999, Window(o, 399999, 1))
            /\ streamer'[o].position = 400000

\* C15 (further read): a read at 400000 returns 0 bytes.
ReadAfterLastByte ==
  \A o \in Ops, buf_len \in AdapterBufLens :
    (Read(o, buf_len, MaxAdapterCalls) /\ streamer[o].file_size = 400000 /\ streamer[o].position = 400000)
      => ret'[o] = ReadOk(400000, EmptyData) /\ streamer' = streamer

\* C15: the scenario at the end of the 400000-byte source.
EndScenario == [][SeekToLastByte /\ ReadLastByte /\ ReadAfterLastByte]_vars

\* three calls: the seek, the read of the last byte after a fetch of the
\* last block, the read that returns 0
EndScenarioWitness ==
  \E o \in Ops :
    /\ used.calls[o] = 3
    /\ ret[o] = ReadOk(400000, EmptyData)
    /\ state[o].stats.cache_misses = 1 /\ state[o].stats.cache_hits = 0
    /\ state[o].stats.total_bytes_fetched = 137856
    /\ \E m \in Dispatched(o) : m.offset = CACHE_BLOCK_SIZE /\ m.size = 137856

\* --------------------------------------------------------------------- C16

\* the places of a fetch_block between the registration of its request and its return
InFetch == {"dispatch", "wait", "expired"}

\* a step that ends the fetch returns to read, with data or with one of the failures
FetchOutcomeStep ==
  \A o \in Ops :
    (pc[o] \in InFetch /\ pc'[o] \notin InFetch)
      => /\ pc'[o] = "ready"
         /\ \/ ret'[o].kind = "ok" /\ ret'[o].op = "read"
            \/ ret'[o].kind = "err" /\ ret'[o].error \in {"Rejected", "ShortRead", "Timeout"}

\* the thread waits only in recv_timeout: everywhere else in the fetch its next step can be taken
WaitsOnlyForResult ==
  \A o \in Ops :
    /\ pc[o] = "dispatch" => ENABLED Dispatch(o)
    /\ pc[o] = "wait" => ENABLED (Receive(o) \/ Timeout(o))
    /\ pc[o] = "expired" => ENABLED Expire(o)

\* a fetch in progress comes to an end, by a return or by a panic
FetchEnds ==
  \A o \in Ops : (pc[o] \in InFetch) ~> (pc[o] \in {"ready", "panicked"})

\* C16 as claimed: whatever the peer does, every fetch returns to the
\* calling thread with data, Rejected, ShortRead or Timeout, and the thread
\* waits only between dispatch and delivery or expiry.
FetchReturns ==
  /\ [][FetchOutcomeStep]_vars
  /\ []WaitsOnlyForResult
  /\ \A o \in Ops : (pc[o] \in InFetch) ~> (pc[o] = "ready")

\* --------------------------------------------------------------------- C17

\* what the waiter is sent for a completion that has neither data nor error
NoDataResult == [ok |-> FALSE, error |-> "No data or error provided"]

\* C17 (delivery): complete_stream_request(id, None, None) for the pending
\* id of a waiting fetch sends the waiter an error and takes the request
\* out of pending_requests, nothing else.
NoDataIsAnError ==
  \A o \in Ops :
    (pc[o] = "wait" /\ call[o].request_id \in DOMAIN state[o].pending_requests
       /\ TaskOf(call[o].request_id) \in DOMAIN GLOBAL_STREAM_STATES
       /\ GLOBAL_STREAM_STATES[TaskOf(call[o].request_id)] = o)
      => LET after == complete_stream_request(state, rx, call[o].request_id, None, None)
         IN /\ after.rx[o] = Append(rx[o], NoDataResult)
            /\ after.state[o] = remove_request(state[o], call[o].request_id)

\* C17 (receipt): the fetch that receives it fails with Rejected and that
\* detail, and leaves cache, stats and position as they are.
NoDataRejectsFetch ==
  \A o \in Ops :
    (Receive(o) /\ Head(rx[o]) = NoDataResult)
      => /\ ret'[o] = FailedWith("read", "Rejected", "No data or error provided")
         /\ pc'[o] = "ready"
         /\ state'[o].cache = state[o].cache /\ state'[o].stats = state[o].stats
         /\ streamer' = streamer

\* C17: a completion with neither data nor error fails the waiting fetch
\* with Rejected ("No data or error provided") and caches nothing.
NoDataCompletionRejected == []NoDataIsAnError /\ [][NoDataRejectsFetch]_vars

\* a read has failed that way, its block still not in the cache
NoDataCompletionRejectedWitness ==
  \E o \in Ops :
    /\ ret[o] = FailedWith("read", "Rejected", "No data or error provided")
    /\ pc[o] = "ready"
    /\ state[o].stats.total_requests >= 1
    /\ call[o].block_offset \notin DOMAIN state[o].cache

\* --------------------------------------------------------------------- C18

\* C18 (one step): a request goes out only in the one dispatch step of a
\* fetch; from its wait the fetch never comes back to dispatching; a fetch
\* starts dispatching only in a new read call; and a fetch that ends in a
\* failure hands it to the caller of read in that step.
NoRetryStep ==
  \A o \in Ops :
    /\ Sent(o) # {} => (pc[o] = "dispatch" /\ pc'[o] = "wait" /\ Cardinality(Sent(o)) = 1)
    /\ pc[o] \in {"wait", "expired"} => pc'[o] # "dispatch"
    /\ (pc'[o] = "dispatch" /\ pc[o] # "dispatch")
         => (pc[o] = "ready" /\ used'.calls[o] = used.calls[o] + 1)
    /\ (pc[o] \in InFetch /\ pc'[o] = "ready" /\ ret'[o].kind = "err")
         => /\ ret'[o].op = "read" /\ ret'[o].error \in {"Timeout", "Rejected"}
            /\ {<<m.op, m.chan>> : m \in outbox'} = {<<m.op, m.chan>> : m \in outbox}

\* C18 (count): no operation has dispatched more requests than it made read calls.
AtMostOneDispatchPerCall ==
  \A o \in Ops : Cardinality(Dispatched(o)) <= used.calls[o]

\* C18: no retries.
NeverRetries == [][NoRetryStep]_vars /\ []AtMostOneDispatchPerCall

\* two read calls have failed, one of them by timeout, each with its one dispatch
NeverRetriesWitness ==
  \E o \in Ops :
    /\ pc[o] = "ready" /\ used.calls[o] = 2
    /\ ret[o].kind = "err" /\ ret[o].op = "read"
    /\ Cardinality(Dispatched(o)) = 2
    /\ \E m \in Dispatched(o) : m.fate = "timeout"
    /\ \E m \in Dispatched(o) : m.fate = "error"

\* --------------------------------------------------------------------- C19

\* b is the greatest multiple of CACHE_BLOCK_SIZE that is <= x
GreatestMultipleBelow(b, x) ==
  /\ b % CACHE_BLOCK_SIZE = 0
  /\ b <= x
  /\ x - b < CACHE_BLOCK_SIZE

\* C19: cache_block_offset(o) is the greatest multiple of CACHE_BLOCK_SIZE
\* that is <= o, for the offsets sampled, for every position the reader is
\* at and for the block offset every fetch in progress has computed.
BlockOffsetIsGreatestMultiple ==
  /\ \A x \in SampleOffsets : GreatestMultipleBelow(cache_block_offset(x), x)
  /\ \A o \in Ops :
       /\ GreatestMultipleBelow(cache_block_offset(streamer[o].position), streamer[o].position)
       /\ pc[o] \in InFetch =>
            /\ call[o].block_offset = cache_block_offset(call[o].offset)
            /\ GreatestMultipleBelow(call[o].block_offset, call[o].offset)

\* a fetch for the last byte of the last block has been dispatched
BlockOffsetIsGreatestMultipleWitness ==
  \E o \in Ops :
    /\ pc[o] = "wait"
    /\ call[o].offset = 4096 * CACHE_BLOCK_SIZE - 1
    /\ call[o].block_offset = 4095 * CACHE_BLOCK_SIZE
    /\ \E m \in Dispatched(o) : m.offset = call[o].block_offset

\* --------------------------------------------------------------------- C20

\* C20 (eviction): a step that takes a block out of the cache takes out one
\* block, from a cache at capacity, in favour of a new block, and the block
\* taken out has the smallest access_order of all blocks cached before.
EvictsLeastRecentlyUsed ==
  \A o \in Ops :
    LET old == state[o].cache
        new == state'[o].cache
        gone == DOMAIN old \ DOMAIN new
    IN (pc[o] \in InFetch /\ gone # {})
         => /\ Cardinality(gone) = 1
            /\ Cardinality(DOMAIN old) = MAX_CACHE_BLOCKS
            /\ DOMAIN new \ DOMAIN old # {}
            /\ \A k \in gone, j \in DOMAIN old : old[k].access_order <= old[j].access_order

\* C20 (access order): a block that is inserted, and a block that a read
\* hits, gets an access_order above that of every other block.
AccessOrderIsLatestUse ==
  \A o \in Ops :
    LET old == state[o].cache
        new == state'[o].cache
        hit == cache_block_offset(streamer[o].position)
    IN pc[o] \in {"ready"} \cup InFetch =>
         /\ \A k \in DOMAIN new :
              (k \notin DOMAIN old \/ new[k].access_order # old[k].access_order)
                => \A j \in DOMAIN new \ {k} : new[j].access_order < new[k].access_order
         /\ state'[o].stats.cache_hits = state[o].stats.cache_hits + 1
              => /\ hit \in DOMAIN old
                 /\ \A j \in DOMAIN old : new[hit].access_order > old[j].access_order

\* C20: eviction takes the least recently used block.
LeastRecentlyUsedEvicted == [][EvictsLeastRecentlyUsed /\ AccessOrderIsLatestUse]_vars

\* the first block, hit again after the cache filled up, is still cached
\* while the second block has been evicted for a later one
LeastRecentlyUsedEvictedWitness ==
  \E o \in Ops :
    /\ Cardinality(DOMAIN state[o].cache) = MAX_CACHE_BLOCKS
    /\ 0 \in DOMAIN state[o].cache
    /\ CACHE_BLOCK_SIZE \notin DOMAIN state[o].cache
    /\ MAX_CACHE_BLOCKS * CACHE_BLOCK_SIZE \in DOMAIN state[o].cache
    /\ \E m \in Dispatched(o) : m.offset = CACHE_BLOCK_SIZE
    /\ Cardinality({m \in Dispatched(o) : m.offset = 0}) = 1
    /\ state[o].cache[0].access_order > state[o].cache[(MAX_CACHE_BLOCKS - 1) * CACHE_BLOCK_SIZE].access_order
    /\ state[o].cache[0].access_order < state[o].cache[MAX_CACHE_BLOCKS * CACHE_BLOCK_SIZE].access_order

\* --------------------------------------------------------------------- C21

\* the lookups tried on every SharedState: offsets at and after the start of
\* a block, past a short block, in the last block, and sizes up to more than a block
LookupOffsets == {0, 5, ShortLen, 20, CACHE_BLOCK_SIZE, 300000, 399999}

LookupSizes == {1, 10, 300000}

\* the bytes a block holds from byte `start` of the block on
HeldPast(data, start) == IF data.len >= start THEN data.len - start ELSE 0

\* C21: a lookup (offset, size) that finds a block at the block offset of
\* `offset` returns the block's bytes from offset - block_offset on, at most
\* size of them and no more than the block holds from there (none when it
\* holds none), and gives the block an access_order above every other; the
\* other blocks and the block's data stay as they are. A lookup that finds
\* no block returns nothing and changes nothing.
CacheLookupCorrect ==
  \A o \in Ops, offset \in LookupOffsets, size \in LookupSizes :
    LET s == state[o]
        b == cache_block_offset(offset)
        r == read_from_cache(s, offset, size)
    IN IF b \in DOMAIN s.cache
       THEN LET held == s.cache[b].data
                start == offset - b
                past == HeldPast(held, start)
            IN /\ r.data.none <=> past = 0
               /\ ~r.data.none =>
                    /\ r.data.val.file = held.file /\ r.data.val.src = held.src + start
                    /\ r.data.val.len <= size /\ r.data.val.len <= past
                    /\ r.data.val.len = Min(size, past)
               /\ DOMAIN r.state.cache = DOMAIN s.cache
               /\ r.state.cache[b].data = held
               /\ \A j \in DOMAIN s.cache :
                    /\ r.state.cache[b].access_order > s.cache[j].access_order
                    /\ j # b => r.state.cache[j] = s.cache[j]
       ELSE r.data.none /\ r.state = s

\* a block shorter than asked for was cached and looked up past its end,
\* fetched again in full, and then hit
CacheLookupCorrectWitness ==
  \E o \in Ops :
    /\ pc[o] = "ready"
    /\ state[o].stats.cache_hits = 1 /\ state[o].stats.total_requests = 2
    /\ state[o].access_counter = 4
    /\ 0 \in DOMAIN state[o].cache /\ state[o].cache[0].data.len = CACHE_BLOCK_SIZE

\* --------------------------------------------------------------------- C22

\* C22 (the dispatch): the request a fetch hands to the peer has the block
\* offset of the position read at as its offset and
\* min(CACHE_BLOCK_SIZE, source length - offset) as its size.
DispatchCarriesBlockWindow ==
  \A o \in Ops :
    Dispatch(o) =>
      \E m \in Sent(o) :
        /\ Sent(o) = {m}
        /\ call[o].offset = streamer[o].position
        /\ GreatestMultipleBelow(m.offset, call[o].offset)
        /\ m.size = Min(CACHE_BLOCK_SIZE, streamer[o].file_size - m.offset)

\* C22 (the bounds): every request handed to the peer asks for at least one
\* byte of a block and for nothing past the end of the source.
DispatchedWithinSource ==
  \A m \in outbox :
    /\ m.offset % CACHE_BLOCK_SIZE = 0
    /\ m.size >= 1 /\ m.size <= CACHE_BLOCK_SIZE
    /\ m.offset + m.size <= streamer[m.op].file_size

\* C22: both parts.
DispatchWithinSource == [][DispatchCarriesBlockWindow]_vars /\ []DispatchedWithinSource

\* the whole first block and the shorter last block have been asked for, the
\* last one for a read at the last byte of the source
DispatchWithinSourceWitness ==
  \E o \in Ops :
    /\ pc[o] = "wait" /\ call[o].offset = streamer[o].file_size - 1
    /\ \E m \in Dispatched(o) :
         m.chan = call[o].chan /\ m.offset = CACHE_BLOCK_SIZE /\ m.offset + m.size = streamer[o].file_size
    /\ \E m \in Dispatched(o) : m.offset = 0 /\ m.size = CACHE_BLOCK_SIZE

\* --------------------------------------------------------------------- C23

\* task ids and sequence values at the ends and in the middle of their 16 bits
SampleTaskIds == {0, 1, 2, 255, 256, 32767, 32768, TASK_SPACE - 1}

SampleSeqs == {0, 1, 255, 256, 32768, SEQ_SPACE - 2, SEQ_SPACE - 1}

\* C23 (the function): for a session with a task id below 2^16 at any
\* sequence value, next_id returns the id with the task id in its high half
\* and the sequence in its low half, request_id >> 16 of it is the task id,
\* and the sequence is advanced by one modulo 2^16.
NextIdComposes ==
  \A t \in SampleTaskIds, q \in SampleSeqs :
    LET s == [SharedState_new(t) EXCEPT !.next_request_seq = q]
        r == next_id(s)
    IN /\ r.id = [hi |-> t, lo |-> q]
       /\ TaskOf(r.id) = t
       /\ r.state.next_request_seq = (q + 1) % SEQ_SPACE
       /\ r.state.next_request_seq \in 0 .. SEQ_SPACE - 1
       /\ r.state.task_id = t

\* C23 (the fetch): a fetch that registers a request does so under the id
\* made of its session's task id and the sequence value before the call,
\* and leaves the sequence advanced by one modulo 2^16.
FetchIssuesNextId ==
  \A o \in Ops :
    (pc[o] = "ready" /\ pc'[o] = "dispatch")
      => /\ call'[o].request_id = [hi |-> state[o].task_id, lo |-> state[o].next_request_seq]
         /\ TaskOf(call'[o].request_id) = state[o].task_id
         /\ state'[o].next_request_seq = (state[o].next_request_seq + 1) % SEQ_SPACE
         /\ state'[o].task_id = state[o].task_id

\* C23 (the window): two requests of one session fewer than 2^16 requests
\* apart carry distinct ids, and every request sent carries its session's task id.
IdsDistinctInWindow ==
  \A m, n \in outbox :
    /\ TaskOf(m.request_id) = state[m.op].task_id
    /\ (m.op = n.op /\ m.chan < n.chan /\ n.chan - m.chan < SEQ_SPACE) => m.request_id # n.request_id

SlotRegistered(o) ==
  /\ call[o].request_id \in DOMAIN state[o].pending_requests
  /\ state[o].pending_requests[call[o].request_id] = call[o].chan

\* C24 (the order): a fetch that missed the cache has its request
\* registered when it comes to its dispatch, and the request is handed to
\* the peer only in that dispatch.
RegisteredBeforeDispatch ==
  \A o \in Ops :
    /\ (pc[o] = "ready" /\ pc'[o] = "dispatch")
         => /\ SlotRegistered(o)'
            /\ state'[o].stats.cache_misses = state[o].stats.cache_misses + 1
            /\ \A m \in outbox' : <<m.op, m.chan>> # <<o, call'[o].chan>>
    /\ Dispatch(o) => (Sent(o) # {} /\ (rx[o] = <<>> => SlotRegistered(o)))

\* C24 (the slot): as long as no completion has been delivered under its
\* request id, a fetch at its dispatch or waiting has its slot registered,
\* and a completion that arrives for the id of a waiting fetch takes the
\* slot and puts its result on the channel of the waiter.
CompletionFindsSlot ==
  \A o \in Ops :
    /\ (pc[o] \in {"dispatch", "wait"} /\ rx[o] = <<>>) => SlotRegistered(o)
    /\ (pc[o] = "wait" /\ rx[o] = <<>>)
         => /\ SlotRegistered(o)
            /\ \A data \in AnyData, error \in Errors :
                 LET after == complete_stream_request(state, rx, call[o].request_id, data, error)
                 IN /\ after.rx[o] = <<CompletionResult(data, error)>>
                    /\ call[o].request_id \notin DOMAIN after.state[o].pending_requests

\* C24 (the receipt): a waiter whose channel holds a result receives it: it
\* does not time out, and it ends with what that result decides.
WaiterReceives ==
  \A o \in Ops :
    /\ (pc[o] = "wait" /\ rx[o] # <<>>) => (pc'[o] # "expired" /\ (pc'[o] # "wait" => Receive(o)))
    /\ Receive(o) =>
         IF Head(rx[o]).ok
         THEN \/ pc'[o] = "panicked"
              \/ ret'[o].kind = "ok" /\ ret'[o].op = "read" /\ ret'[o].pos = call[o].offset
         ELSE ret'[o] = FailedWith("read", "Rejected", Head(rx[o]).error)

\* C24: the three parts.
SlotRegisteredBeforeDispatch ==
  [][RegisteredBeforeDispatch /\ WaiterReceives]_vars /\ []CompletionFindsSlot

\* a read has returned bytes from a fetch whose completion found the slot
SlotRegisteredBeforeDispatchWitness ==
  \E o \in Ops :
    /\ pc[o] = "ready" /\ ret[o].kind = "ok" /\ ret[o].op = "read" /\ ret[o].pos = call[o].offset
    /\ ret[o].data.len > 0
    /\ \E m \in Dispatched(o) : m.chan = call[o].chan /\ m.fate = "data"
    /\ state[o].pending_requests = EmptyMap
    /\ state[o].stats.cache_hits = 0

\* --------------------------------------------------------------------- C25

\* C25 (the registry): an operation that is in no fetch has no request
\* registered, and one that is in a fetch has none but that of the fetch.
RegistryHoldsOnlyFetchInProgress ==
  \A o \in Ops :
    /\ pc[o] \notin InFetch => state[o].pending_requests = EmptyMap
    /\ pc[o] \in InFetch => DOMAIN state[o].pending_requests \subseteq {call[o].request_id}

\* C25 (the return): a step that ends a fetch, with any outcome, leaves no
\* entry for its request id.
FetchEndsUnregistered ==
  \A o \in Ops :
    (pc[o] \in InFetch /\ pc'[o] \notin InFetch)
      => call[o].request_id \notin DOMAIN state'[o].pending_requests

\* C25 (one removal): the entry of a fetch is taken out either by a
\* delivery, which puts a result on the channel and leaves the fetch where
\* it is, or by the fetch itself on its rejected or timeout path, which
\* fails the read; never by both in one step.
RemovedByOnePath ==
  \A o \in Ops :
    (pc[o] \in InFetch /\ SlotRegistered(o) /\ ~SlotRegistered(o)')
      => \/ /\ pc'[o] = pc[o] /\ Len(rx'[o]) = Len(rx[o]) + 1 /\ ret'[o] = ret[o]
         \/ /\ pc[o] = "dispatch" /\ pc'[o] = "ready" /\ rx'[o] = rx[o]
            /\ ret'[o] = Failed("read", "Rejected")
         \/ /\ pc[o] = "expired" /\ pc'[o] = "ready" /\ rx'[o] = rx[o]
            /\ ret'[o] = Failed("read", "Timeout")

\* C25 (the race): when a delivery took the entry after the wait ran out,
\* the removal of the timeout path changes nothing in the SharedState and
\* the read still fails with Timeout.
SecondRemovalHarmless ==
  \A o \in Ops :
    (pc[o] = "expired" /\ ~SlotRegistered(o) /\ pc'[o] # "expired")
      => /\ state'[o] = state[o]
         /\ ret'[o] = Failed("read", "Timeout") /\ pc'[o] = "ready"

\* C25: the registry entry of a fetch is gone when the fetch returns,
\* removed once; a removal that comes second, in either order of a timeout
\* and a delivery, changes nothing.
RegistryEmptyAfterFetch ==
  /\ []RegistryHoldsOnlyFetchInProgress
  /\ [][FetchEndsUnregistered /\ RemovedByOnePath /\ SecondRemovalHarmless]_vars
  /\ []LateCompletionNoOp

\* a read failed with Timeout while a delivery that raced the timeout had
\* taken the entry and left its result on the channel
RegistryEmptyAfterFetchWitness ==
  \E o \in Ops :
    /\ pc[o] = "ready" /\ ret[o] = Failed("read", "Timeout")
    /\ rx[o] # <<>>
    /\ state[o].pending_requests = EmptyMap
    /\ \E m \in Dispatched(o) : m.chan = call[o].chan /\ m.fate = "timeout"

\* --------------------------------------------------------------------- C26

\* the last fetch of operation o ended with its dispatch rejected
DispatchWasRejected(o) == pc[o] \notin InFetch /\ ret[o] = Failed("read", "Rejected")

\* C26 (the rejection): a fetch leaves its dispatch either with its
\* request handed to the peer, to wait, or rejected: then it takes its
\* request out of pending_requests and fails the read with Rejected in that
\* same step, without a wait, with nothing sent and nothing else changed.
RejectedDispatchStep ==
  \A o \in Ops :
    (pc[o] = "dispatch" /\ pc'[o] # "dispatch")
      => \/ pc'[o] = "wait" /\ Sent(o) # {}
         \/ /\ pc'[o] = "ready" /\ Sent(o) = {}
            /\ ret'[o] = Failed("read", "Rejected")
            /\ state'[o] = remove_request(state[o], call[o].request_id)
            /\ call[o].request_id \notin DOMAIN state'[o].pending_requests
            /\ streamer' = streamer /\ rx' = rx /\ outbox' = outbox

\* C26 (the late completion): after a rejected dispatch a completion for
\* the request id, with any data or error, changes nothing.
CompletionAfterRejectionNoOp ==
  \A o \in Ops : DispatchWasRejected(o) => NoOp(call[o].request_id)

\* C26: both parts.
RejectedDispatchUnregisters == [][RejectedDispatchStep]_vars /\ []CompletionAfterRejectionNoOp

\* a read failed on its rejected dispatch after an earlier read had fetched a block
RejectedDispatchUnregistersWitness ==
  \E o \in Ops :
    /\ pc[o] = "ready" /\ DispatchWasRejected(o)
    /\ state[o].stats.total_requests = 2
    /\ Cardinality(Dispatched(o)) = 1
    /\ state[o].pending_requests = EmptyMap
    /\ state[o].task_id \in DOMAIN GLOBAL_STREAM_STATES

\* --------------------------------------------------------------------- C27

\* the Session Registry has operation o under its task id
Registered(o) ==
  /\ state[o].task_id \in DOMAIN GLOBAL_STREAM_STATES
  /\ GLOBAL_STREAM_STATES[state[o].task_id] = o

\* the blocking operation of o is running: between reads or in a fetch
Running(o) == pc[o] \in {"ready"} \cup InFetch

\* the step is one of a peer that shares the task id of o while it is live:
\* a peer that starts under that id, a peer with that id whose resolver
\* runs, or a run of operations one of which draws that id
SharingPeerActs(o) ==
  \/ \E p \in Ops \ {o} : pc[p] = "init" /\ pc'[p] = "ready" /\ state'[p].task_id = state[o].task_id
  \/ \E p \in Ops \ {o} : pc[p] = "finished" /\ pc'[p] = "done" /\ state[p].task_id = state[o].task_id
  \/ /\ used'.ops # used.ops
     /\ (state[o].task_id + TASK_SPACE - next_task_id(GLOBAL_TASK_ID)) % TASK_SPACE
          < GLOBAL_TASK_ID' - GLOBAL_TASK_ID

\* C27 (the lifecycle): a session is registered in the step that starts it,
\* before it can read; unless a peer sharing its task id acts, it stays
\* registered in every step, and its entry is removed only by its own
\* resolver, which runs when the blocking operation has finished.
RegisteredWhileRunning ==
  \A o \in Ops :
    /\ (pc[o] = "init" /\ pc'[o] = "ready") => Registered(o)'
    /\ (Registered(o) /\ ~Registered(o)' /\ ~SharingPeerActs(o))
         => (pc[o] = "finished" /\ pc'[o] = "done")
    /\ (pc[o] = "finished" /\ pc'[o] = "done") => ~Running(o)

\* C27 (the sessions): as long as no task id has been drawn twice, every
\* running session is registered, at every moment one of its fetches is
\* dispatched and waiting too.
RunningSessionsRegistered ==
  GLOBAL_TASK_ID <= TASK_SPACE => \A o \in Ops : Running(o) => Registered(o)

\* C27 (the completion): a completion for the pending request of a waiting
\* fetch of a registered session is not dropped: it reaches the waiter's channel.
CompletionNotDropped ==
  \A o \in Ops :
    (pc[o] = "wait" /\ Registered(o) /\ SlotRegistered(o))
      => \A data \in AnyData, error \in Errors :
           complete_stream_request(state, rx, call[o].request_id, data, error).rx[o]
             = Append(rx[o], CompletionResult(data, error))

\* C27: the three parts.
SessionRegisteredWhileFetching ==
  [][RegisteredWhileRunning]_vars /\ []RunningSessionsRegistered /\ []CompletionNotDropped

\* a session waits in a fetch, registered, next to a peer with another task
\* id that has concluded and been unregistered
SessionRegisteredWhileFetchingWitness ==
  \E o \in Ops, p \in Ops :
    /\ pc[o] = "wait" /\ Registered(o) /\ SlotRegistered(o)
    /\ \E m \in Dispatched(o) : m.chan = call[o].chan /\ m.fate = "open"
    /\ pc[p] = "done" /\ state[p].task_id # state[o].task_id
    /\ state[p].task_id \notin DOMAIN GLOBAL_STREAM_STATES
    /\ state[p].stats.total_requests > 0

\* --------------------------------------------------------------------- C28

\* the fetches of operation o that received data
ReceivedData(o) == {m \in Dispatched(o) : m.fate = "data"}

\* C28 (the receipt): a waiting fetch that receives data adds the length of
\* that data, whatever it is, to total_bytes_fetched and leaves the data in
\* the cache under the block offset of the position it reads at.
DataReceiptCounted ==
  \A o \in Ops :
    (Receive(o) /\ Head(rx[o]).ok)
      => LET data == Head(rx[o]).data
             block_offset == call[o].block_offset
         IN /\ state'[o].stats.total_bytes_fetched = state[o].stats.total_bytes_fetched + data.len
            /\ GreatestMultipleBelow(block_offset, call[o].offset)
            /\ block_offset \in DOMAIN state'[o].cache
            /\ state'[o].cache[block_offset].data = data

\* C28 (nothing else): total_bytes_fetched changes in no other step.
OnlyDataReceiptCounts ==
  \A o \in Ops :
    state'[o].stats.total_bytes_fetched # state[o].stats.total_bytes_fetched
      => (pc[o] = "wait" /\ rx[o] # <<>> /\ Head(rx[o]).ok /\ pc'[o] # "wait")

\* C28 (the total): total_bytes_fetched is 0 until a fetch has received
\* data, and never above the longest payload times the number of fetches
\* that received data.
TotalWithinReceived ==
  \A o \in Ops :
    LET n == Cardinality(ReceivedData(o))
    IN /\ state[o].stats.total_bytes_fetched >= 0
       /\ state[o].stats.total_bytes_fetched <= n * (CACHE_BLOCK_SIZE + OverLen)

\* C28: total_bytes_fetched starts at 0, grows by the length of each
\* payload received and by nothing else, so it is the sum of those lengths.
BytesFetchedIsSumReceived ==
  [][DataReceiptCounted /\ OnlyDataReceiptCounts]_vars /\ []TotalWithinReceived

\* two fetches received data, the first a payload shorter than asked for,
\* the second a whole block that took its place in the cache
BytesFetchedIsSumReceivedWitness ==
  \E o \in Ops :
    /\ Cardinality(ReceivedData(o)) = 2
    /\ state[o].stats.total_bytes_fetched = ShortLen + CACHE_BLOCK_SIZE
    /\ 0 \in DOMAIN state[o].cache /\ state[o].cache[0].data.len = CACHE_BLOCK_SIZE
    /\ pc[o] = "ready"

\* --------------------------------------------------------------------- C29

\* every block in a cache is keyed by a multiple of CACHE_BLOCK_SIZE
CachedBlocksAligned ==
  \A o \in Ops : \A k \in DOMAIN state[o].cache : k % CACHE_BLOCK_SIZE = 0

\* C29 as claimed: for any payload the peer delivers, every block in a
\* cache is keyed by a multiple of CACHE_BLOCK_SIZE and holds at most
\* CACHE_BLOCK_SIZE bytes.
CachedBlocksWithinBlockSize ==
  \A o \in Ops : \A k \in DOMAIN state[o].cache :
    /\ k % CACHE_BLOCK_SIZE = 0
    /\ state[o].cache[k].data.len <= CACHE_BLOCK_SIZE

\* --------------------------------------------------------------------- C30

\* C30 (the read): a fetch that ends in a failure hands Timeout or Rejected
\* to the caller of read and leaves the cursor where it was when read was called.
FailedReadKeepsPosition ==
  \A o \in Ops :
    /\ (pc[o] \in InFetch /\ pc'[o] = "ready" /\ ret'[o].kind = "err")
         => /\ ret'[o].op = "read" /\ ret'[o].error \in {"Timeout", "Rejected"}
            /\ streamer'[o] = streamer[o]
            /\ streamer'[o].position = call[o].offset
    /\ (pc[o] = "expired" /\ pc'[o] # "expired")
         => (ret'[o] = Failed("read", "Timeout") /\ streamer'[o] = streamer[o])
    /\ (pc[o] \in InFetch /\ pc'[o] \in InFetch) => streamer'[o] = streamer[o]

\* C30 (the seek): a seek to a negative position fails with InvalidSeek
\* and does not move the cursor.
FailedSeekKeepsPosition ==
  \A o \in Ops, pos_from \in SeekFroms :
    (Seek(o, pos_from, MaxCalls)
       /\ Negative(ClaimedSeekTarget(streamer[o].file_size, streamer[o].position, pos_from)))
      => (ret'[o] = Failed("seek", "InvalidSeek") /\ streamer'[o] = streamer[o])

\* C30 (any failure): no step that returns a failure to the consumer moves the cursor.
FailureKeepsPosition ==
  \A o \in Ops :
    (ret'[o].kind = "err" /\ ret'[o] # ret[o]) => streamer'[o] = streamer[o]

\* C30: a read or seek that fails leaves the position unchanged.
FailuresKeepPosition ==
  [][FailedReadKeepsPosition /\ FailedSeekKeepsPosition /\ FailureKeepsPosition]_vars

\* a read timed out at 0, the next read advanced to 10, and a seek to
\* 10 - 60 then failed with the cursor still at 10
FailuresKeepPositionWitness ==
  \E o \in Ops :
    /\ ret[o] = Failed("seek", "InvalidSeek")
    /\ streamer[o].position = 10
    /\ \E m \in Dispatched(o) : m.fate = "timeout"
    /\ \E m \in Dispatched(o) : m.fate = "data"

\* --------------------------------------------------------------------- C31

\* the blocks of a cache without their access_order
Contents(cache) == [k \in DOMAIN cache |-> cache[k].data]

\* the part of C31 about the data: a fetch that misses and then fails puts
\* no block into the cache, takes none out, and leaves total_bytes_fetched
\* and cache_hits alone.
FailedFetchCachesNothing ==
  \A o \in Ops :
    ((pc[o] = "ready" /\ pc'[o] = "dispatch")
       \/ (pc[o] \in InFetch /\ pc'[o] \in InFetch)
       \/ (pc[o] \in InFetch /\ pc'[o] = "ready" /\ ret'[o].kind = "err"))
      => /\ Contents(state'[o].cache) = Contents(state[o].cache)
         /\ state'[o].stats.total_bytes_fetched = state[o].stats.total_bytes_fetched
         /\ state'[o].stats.cache_hits = state[o].stats.cache_hits

\* C31 (the start of the fetch): a fetch that misses advances cache_misses,
\* total_requests and the sequence by one and nothing else of the
\* SharedState but the registration of its request.
MissAdvancesOnlyCounters ==
  \A o \in Ops :
    (pc[o] = "ready" /\ pc'[o] = "dispatch")
      => state'[o] = [state[o] EXCEPT !.stats.cache_misses = @ + 1,
                                      !.stats.total_requests = @ + 1,
                                      !.next_request_seq = (@ + 1) % SEQ_SPACE,
                                      !.pending_requests = state'[o].pending_requests]

\* C31 (the end of the fetch): while the fetch is in progress, and when it
\* ends in Timeout, a rejection or a delivered error, nothing of the
\* SharedState changes but the registration of its request.
FailureChangesNothing ==
  \A o \in Ops :
    (pc[o] \in InFetch /\ (pc'[o] \in InFetch \/ (pc'[o] = "ready" /\ ret'[o].kind = "err")))
      => state'[o] = [state[o] EXCEPT !.pending_requests = state'[o].pending_requests]

\* C31 as claimed: a fetch that ends in Timeout, a synchronous rejection or
\* a delivered error has inserted nothing into the cache and evicted
\* nothing, left total_bytes_fetched and cache_hits unchanged, and advanced
\* only cache_misses, total_requests and the sequence counter.
FailedFetchFrame ==
  [][FailedFetchCachesNothing /\ MissAdvancesOnlyCounters /\ FailureChangesNothing]_vars

\* the part of C31 that holds, as a property of its own
FailedFetchKeepsData == [][FailedFetchCachesNothing /\ FailureChangesNothing]_vars

\* --------------------------------------------------------------------- C32

\* C32 (one step): a seek, from any origin and with any offset, whether it
\* succeeds or fails, hands nothing to the peer, registers nothing and
\* leaves every SharedState, the Session Registry and the channels as they are.
SeekStepIsLocal ==
  \A o \in Ops, pos_from \in AdapterSeekFroms :
    Seek(o, pos_from, MaxAdapterCalls)
      => /\ state' = state
         /\ outbox' = outbox /\ rx' = rx /\ call' = call
         /\ GLOBAL_STREAM_STATES' = GLOBAL_STREAM_STATES /\ GLOBAL_TASK_ID' = GLOBAL_TASK_ID
         /\ pc'[o] # "dispatch" /\ pc'[o] # "wait"

\* C32: seek is purely local.
SeekIsLocal == [][SeekStepIsLocal]_vars

\* a seek to the second block has returned with the first block cached and
\* its one request the only one ever made
SeekIsLocalWitness ==
  \E o \in Ops :
    /\ ret[o] = [kind |-> "ok", op |-> "seek", pos |-> 300000]
    /\ DOMAIN state[o].cache = {0}
    /\ state[o].stats.total_requests = 1 /\ state[o].next_request_seq = 1
    /\ Cardinality(Dispatched(o)) = 1
    /\ state[o].pending_requests = EmptyMap

\* --------------------------------------------------------------------- C33

\* the bytes a payload has from the position read at on, at most `size` of them
AvailableFrom(data, offset_in_block, size) ==
  Window(data.file, data.src + offset_in_block, Min(size, saturating_sub(data.len, offset_in_block)))

\* C33 (the receipt): a fetch that receives data of any length returns to
\* read with the bytes the data has from offset - block_offset on, none if
\* it has none.
ShortDataReturnsAvailable ==
  \A o \in Ops :
    (Receive(o) /\ Head(rx[o]).ok)
      => /\ pc'[o] = "ready"
         /\ ret'[o] = ReadOk(call[o].offset,
                             AvailableFrom(Head(rx[o]).data, call[o].offset - call[o].block_offset, call[o].size))

\* C33 (the session): no worker is ever torn down in a fetch, and an
\* operation that has concluded has been unregistered.
NoWorkerAborted ==
  \A o \in Ops :
    /\ pc[o] # "panicked"
    /\ pc[o] = "done" => ~Registered(o)

\* C33 as claimed: whatever the length of the data delivered, fetch does
\* not abort the calling thread, returns the bytes available from the
\* position read at, and the session concludes normally.
FetchNeverAborts == [][ShortDataReturnsAvailable]_vars /\ []NoWorkerAborted

\* --------------------------------------------------------------------- C34

\* C34 as claimed: a read into a non-empty buffer that succeeds with 0
\* bytes was made at or past the end of the source, for every length of
\* payload the peer delivers: before the end a successful read returns at
\* least 1 byte.
ReadZeroOnlyAtEnd ==
  \A o \in Ops :
    (ret[o].kind = "ok" /\ ret[o].op = "read" /\ ret[o].pos < streamer[o].file_size)
      => ret[o].data.len >= 1

\* --------------------------------------------------------------------- C35

\* C35 (the call): read calls fetch_block only at a position before the end
\* of the source, and fetch_block then finds a window of at least one byte.
FetchWindowNeverEmpty ==
  \A o \in Ops, buf_len \in AdapterBufLens :
    (Read(o, buf_len, MaxAdapterCalls) /\ state'[o] # state[o])
      => /\ streamer[o].position < streamer[o].file_size
         /\ fetch_begin(state[o], streamer[o].file_size, streamer[o].position,
                        Min(buf_len, streamer[o].file_size - streamer[o].position)).kind # "short"
         /\ pc'[o] = "dispatch" => call'[o].fetch_size >= 1

\* C35 (the outcome): no read has failed with ShortRead.
NoShortRead ==
  \A o \in Ops : ret[o].kind = "err" => ret[o].error # "ShortRead"

\* C35: through read and seek the ShortRead failure cannot be reached.
ShortReadUnreachable == [][FetchWindowNeverEmpty]_vars /\ []NoShortRead

\* four calls of seeks and reads around the end of the source, the last a
\* read at the last byte that fetched the last block and returned that byte
ShortReadUnreachableWitness ==
  \E o \in Ops :
    /\ used.calls[o] = 4
    /\ ret[o] = ReadOk(399999, Window(o, 399999, 1))
    /\ state[o].stats.total_requests = 1
    /\ \E m \in Dispatched(o) : m.offset = CACHE_BLOCK_SIZE /\ m.size = 137856

\* --------------------------------------------------------------------- C36

\* C36 (each fetch): a read before the end of the source calls fetch_block
\* once, and that call counts as exactly one hit or exactly one miss; a
\* read at or past the end calls no fetch and counts nothing.
FetchCountsOnce ==
  \A o \in Ops, buf_len \in BufLens :
    Read(o, buf_len, MaxCalls)
      => LET old == state[o].stats
             new == state'[o].stats
         IN IF streamer[o].position < streamer[o].file_size
            THEN \/ new = [old EXCEPT !.cache_hits = @ + 1]
                 \/ new = [old EXCEPT !.cache_misses = @ + 1, !.total_requests = @ + 1]
            ELSE new = old

\* C36 (nothing else): cache_hits, cache_misses and total_requests change
\* only in a step that calls fetch_block (a read call, or a run of n failing
\* reads, which counts n misses), and no counter of the stats ever decreases.
OnlyFetchCounts ==
  \A o \in Ops :
    LET old == state[o].stats
        new == state'[o].stats
    IN /\ (new.cache_hits # old.cache_hits \/ new.cache_misses # old.cache_misses
             \/ new.total_requests # old.total_requests)
            => \/ used'.calls[o] = used.calls[o] + 1 /\ pc[o] = "ready"
               \/ /\ used'.reads[o] = used.reads[o] + 1
                  /\ new.cache_hits = old.cache_hits
                  /\ new.cache_misses - old.cache_misses \in ReadBursts
       /\ new.cache_hits >= old.cache_hits /\ new.cache_misses >= old.cache_misses
       /\ new.total_requests >= old.total_requests
       /\ new.total_bytes_fetched >= old.total_bytes_fetched

\* C36 (the stats): total_requests equals cache_misses, the requests handed
\* to the peer are no more than total_requests, and the fetches counted are
\* no more than the fetches the read calls and the runs of reads can have made.
StatsConsistent ==
  \A o \in Ops :
    LET stats == state[o].stats
    IN /\ stats.total_requests = stats.cache_misses
       /\ Cardinality(Dispatched(o)) <= stats.total_requests
       /\ stats.cache_hits <= used.calls[o]
       /\ stats.cache_hits + stats.cache_misses <= used.calls[o] + used.reads[o] * (SEQ_SPACE - 1)

\* C36: the counters start at 0, every fetch adds one hit or one miss (with
\* its request), nothing else changes them, and none ever decreases.
StatsCountFetches == [][FetchCountsOnce /\ OnlyFetchCounts]_vars /\ []StatsConsistent

\* three reads: one whose dispatch was rejected, one that fetched its block,
\* one served from the cache
StatsCountFetchesWitness ==
  \E o \in Ops :
    /\ pc[o] = "ready" /\ used.calls[o] = 3 /\ used.reads[o] = 0
    /\ state[o].stats.cache_hits = 1 /\ state[o].stats.cache_misses = 2
    /\ state[o].stats.total_requests = 2
    /\ Cardinality(Dispatched(o)) = 1

\* --------------------------------------------------------------------- C37

\* a call of complete_stream_request by the peer, for a request it was given
\* or under an id it was never given
DeliveryStep ==
  \/ \E m \in outbox : \E data \in Datas(m), error \in Errors : Deliver(m, data, error)
  \/ \E request_id \in UnknownIds, error \in Errors : DeliverUnknown(request_id, None, error)

\* C37 (delivery): complete_stream_request changes of a session at most its
\* pending_requests, from which it only removes, and the channel it sends
\* on; cache, access_counter, stats, next_request_seq, the streamer and
\* GLOBAL_STREAM_STATES are as before.
DeliveryChangesRegistryAndSlot ==
  DeliveryStep
    => /\ \A o \in Ops :
            /\ state'[o] = [state[o] EXCEPT !.pending_requests = state'[o].pending_requests]
            /\ DOMAIN state'[o].pending_requests \subseteq DOMAIN state[o].pending_requests
            /\ Len(rx'[o]) >= Len(rx[o])
       /\ GLOBAL_STREAM_STATES' = GLOBAL_STREAM_STATES
       /\ GLOBAL_TASK_ID' = GLOBAL_TASK_ID
       /\ streamer' = streamer /\ pc' = pc

\* C37 (the worker): the blocks a session's cache holds and its
\* total_bytes_fetched change only in the step in which its own worker takes
\* a result off the channel it was waiting on; the access order of the
\* blocks, the other stats and the access counter change only in a step of
\* its own worker (a lookup, or the receipt).
OnlyWorkerUpdates ==
  \A o \in Ops :
    /\ (Contents(state'[o].cache) # Contents(state[o].cache)
          \/ state'[o].stats.total_bytes_fetched # state[o].stats.total_bytes_fetched)
         => pc[o] = "wait" /\ rx[o] # <<>> /\ pc'[o] \in {"ready", "panicked"}
    /\ (state'[o].cache # state[o].cache \/ state'[o].stats # state[o].stats
          \/ state'[o].access_counter # state[o].access_counter)
         => \/ pc[o] = "wait" /\ rx[o] # <<>> /\ pc'[o] \in {"ready", "panicked"}
            \/ pc[o] = "ready" /\ used'.calls[o] = used.calls[o] + 1
            \/ pc[o] = "ready" /\ used'.reads[o] = used.reads[o] + 1

\* C37: the delivering context changes only the pending requests and the
\* channel; cache and stats are updated by the session's own worker.
DeliveryIsFramed == [][DeliveryChangesRegistryAndSlot /\ OnlyWorkerUpdates]_vars

\* a result was delivered to a waiting session whose cache and counted bytes
\* are still as they were, while another session has a block cached
DeliveryIsFramedWitness ==
  \E o, p \in Ops :
    /\ o # p
    /\ pc[o] = "wait" /\ rx[o] # <<>>
    /\ call[o].request_id \notin DOMAIN state[o].pending_requests
    /\ DOMAIN state[o].cache = {} /\ state[o].stats.total_bytes_fetched = 0
    /\ DOMAIN state[p].cache # {}

\* ------------------------------------------------------------- the locks
\*
\* The same code once more, by the Mutex guards it takes and drops. A thread
\* is in a part of its code (registered: the registration; found, missed:
\* the lookup; called: the miss up to the call of the fetcher; rejected,
\* waiting, timed_out, failed, received: what follows the call; resolved:
\* the resolver) with the lock operations of that part still to do, and it
\* takes a lock only when no thread holds it (std::sync::Mutex).

\* GLOBAL_TASK_ID and GLOBAL_STREAM_STATES
Global(name) == [of |-> 0, name |-> name]

\* a Mutex field of the SharedState of operation o
Own(o, name) == [of |-> o, name |-> name]

lock(l) == [op |-> "lock", lock |-> l]

unlock(l) == [op |-> "unlock", lock |-> l]

\* a step that takes no lock: the call of the fetcher, recv_timeout, send
step(name) == [op |-> name, lock |-> Global("")]

\* a guard: the lock is taken, inner runs, the guard is dropped
Hold(l, inner) == <<lock(l)>> \o inner \o <<unlock(l)>>

next_task_id_locks == Hold(Global("GLOBAL_TASK_ID"), <<>>)

register_stream_state_locks == Hold(Global("GLOBAL_STREAM_STATES"), <<>>)

unregister_stream_state_locks == Hold(Global("GLOBAL_STREAM_STATES"), <<>>)

\* the resolver: unregister_stream_state, then the stats guard it keeps while
\* it builds the result
resolver_locks(o) == unregister_stream_state_locks \o Hold(Own(o, "stats"), <<>>)

\* read_from_cache: the cache guard lives to the end of the function, the
\* counter guard inside the block found, the stats guard for one statement
read_from_cache_locks(o, found, hit) ==
  Hold(Own(o, "cache"),
       IF found
       THEN Hold(Own(o, "access_counter"), IF hit THEN Hold(Own(o, "stats"), <<>>) ELSE <<>>)
       ELSE <<>>)

write_to_cache_locks(o) == Hold(Own(o, "cache"), Hold(Own(o, "access_counter"), <<>>))

next_id_locks(o) == Hold(Own(o, "next_request_seq"), <<>>)

register_request_locks(o) == Hold(Own(o, "pending_requests"), <<>>)

\* pending_requests.lock().unwrap().remove(&request_id) as a statement
remove_request_locks(o) == Hold(Own(o, "pending_requests"), <<>>)

\* complete_request: the guard is a temporary of the if let, alive while the
\* result is sent
complete_request_locks(o, found) ==
  Hold(Own(o, "pending_requests"), IF found THEN <<step("send")>> ELSE <<>>)

\* complete_stream_request: states is held to the end of the function
complete_stream_request_locks(known, o, found) ==
  Hold(Global("GLOBAL_STREAM_STATES"), IF known THEN complete_request_locks(o, found) ELSE <<>>)

\* fetch_block after the lookup missed, up to the call of the fetcher
fetch_block_miss_locks(o) ==
  Hold(Own(o, "stats"), <<>>) \o Hold(Own(o, "stats"), <<>>)
    \o next_id_locks(o) \o register_request_locks(o) \o <<step("call")>>

\* a timeout closure that unregisters the session while it holds pending_requests
fetch_block_timeout_locks_unregistering(o) ==
  Hold(Own(o, "pending_requests"), unregister_stream_state_locks)

\* the closure of map_err after recv_timeout ran out
fetch_block_timeout_locks(o) == remove_request_locks(o)

\* fetch_block after Ok(data) was received
fetch_block_received_locks(o) == Hold(Own(o, "stats"), <<>>) \o write_to_cache_locks(o)

Place(name, todo) == [at |-> name, todo |-> todo]

\* where a thread that has done the lock operations of its place can go next
Continuations(t) ==
  LET at == threads[t].at
  IN IF t = 0
     THEN {Place("complete_stream_request", complete_stream_request_locks(FALSE, 0, FALSE))}
            \cup {Place("complete_stream_request", complete_stream_request_locks(TRUE, o, found)) :
                     o \in Ops, found \in BOOLEAN}
     ELSE CASE at = "init" ->
                 {Place("registered", next_task_id_locks \o register_stream_state_locks)}
            [] at \in {"registered", "found", "rejected", "timed_out", "failed", "received"} ->
                 {Place("found", read_from_cache_locks(t, TRUE, TRUE)),
                  Place("missed", read_from_cache_locks(t, TRUE, FALSE)),
                  Place("missed", read_from_cache_locks(t, FALSE, FALSE)),
                  Place("resolved", resolver_locks(t))}
            [] at = "missed" -> {Place("called", fetch_block_miss_locks(t))}
            [] at = "called" ->
                 {Place("rejected", remove_request_locks(t)), Place("waiting", <<step("recv")>>)}
            [] at = "waiting" ->
                 {Place("timed_out", fetch_block_timeout_locks(t)),
                  Place("failed", <<>>),
                  Place("received", fetch_block_received_locks(t))}
            [] OTHER -> {}

\* the threads that hold lock l
Holders(l) == {t \in Threads : \E i \in DOMAIN threads[t].holds : threads[t].holds[i] = l}

\* a thread goes on to the next place of its code
Enter(t, place) ==
  /\ threads[t].todo = <<>>
  /\ place \in Continuations(t)
  /\ threads' = [threads EXCEPT ![t].at = place.at, ![t].todo = place.todo]
  /\ UNCHANGED <<GLOBAL_TASK_ID, GLOBAL_STREAM_STATES, state, streamer, pc, call, rx, ret, outbox, from, exact, used>>

\* Mutex::lock returns: no thread held the lock
Lock(t) ==
  /\ threads[t].todo # <<>>
  /\ Head(threads[t].todo).op = "lock"
  /\ Holders(Head(threads[t].todo).lock) = {}
  /\ threads' = [threads EXCEPT ![t].todo = Tail(@),
                                ![t].holds = Append(@, Head(threads[t].todo).lock)]
  /\ UNCHANGED <<GLOBAL_TASK_ID, GLOBAL_STREAM_STATES, state, streamer, pc, call, rx, ret, outbox, from, exact, used>>

\* a guard is dropped
Unlock(t) ==
  /\ threads[t].todo # <<>>
  /\ Head(threads[t].todo).op = "unlock"
  /\ LET l == Head(threads[t].todo).lock
         kept(h) == h # l
     IN threads' = [threads EXCEPT ![t].todo = Tail(@), ![t].holds = SelectSeq(@, kept)]
  /\ UNCHANGED <<GLOBAL_TASK_ID, GLOBAL_STREAM_STATES, state, streamer, pc, call, rx, ret, outbox, from, exact, used>>

\* the fetcher is called, recv_timeout returns, or the result is sent
Proceed(t) ==
  /\ threads[t].todo # <<>>
  /\ Head(threads[t].todo).op \in {"call", "recv", "send"}
  /\ threads' = [threads EXCEPT ![t].todo = Tail(@)]
  /\ UNCHANGED <<GLOBAL_TASK_ID, GLOBAL_STREAM_STATES, state, streamer, pc, call, rx, ret, outbox, from, exact, used>>

NextLocks ==
  \/ \E t \in Threads : \E place \in Continuations(t) : Enter(t, place)
  \/ \E t \in Threads : Lock(t)
  \/ \E t \in Threads : Unlock(t)
  \/ \E t \in Threads : Proceed(t)

SpecLocks == Init /\ [][NextLocks]_vars

\* --------------------------------------------------------------------- C38

\* the lock thread t is about to take
Wanted(t) ==
  IF threads[t].todo # <<>> /\ Head(threads[t].todo).op = "lock"
  THEN {Head(threads[t].todo).lock}
  ELSE {}

\* thread t cannot go on before thread u drops a lock
WaitsFor(t, u) == \E l \in Wanted(t) : u \in Holders(l)

\* C38 (no deadlock): there is no set of threads each of which waits for a
\* lock that a thread of the set holds.
NoDeadlock ==
  \A T \in SUBSET Threads :
    T # {} => \E t \in T : \A u \in T : ~WaitsFor(t, u)

\* C38 (the wait): a thread in recv_timeout, or calling the fetcher, holds
\* no lock.
NoLockHeldInWait ==
  \A t \in Threads :
    (threads[t].todo # <<>> /\ Head(threads[t].todo).op \in {"call", "recv"})
      => threads[t].holds = <<>>

\* an order of the locks by name
LockRank(l) ==
  CASE l.name = "GLOBAL_STREAM_STATES" -> 1
    [] l.name = "pending_requests" -> 2
    [] l.name = "cache" -> 3
    [] l.name = "access_counter" -> 4
    [] l.name = "stats" -> 5
    [] OTHER -> 6

\* C38 (the order): a thread that takes a lock while it holds others takes
\* one that is later in the order than all it holds, so no two threads
\* take two locks in opposite orders.
LocksTakenInOrder ==
  \A t \in Threads :
    Lock(t) => \A i \in DOMAIN threads[t].holds :
                 LockRank(threads[t].holds[i]) < LockRank(Head(threads[t].todo).lock)

\* C38: no interleaving of the workers, the delivering context and the
\* registration of sessions reaches a deadlock, and no lock is held across
\* the wait for a completion.
LocksNeverDeadlock == []NoDeadlock /\ []NoLockHeldInWait /\ [][LocksTakenInOrder]_vars

\* the delivering context holds GLOBAL_STREAM_STATES and waits for the
\* pending_requests of a session whose worker holds it after a timeout, while
\* the resolver of another session waits for GLOBAL_STREAM_STATES
LocksNeverDeadlockWitness ==
  \E o, p \in Ops :
    /\ o # p
    /\ WaitsFor(0, o) /\ threads[0].holds = <<Global("GLOBAL_STREAM_STATES")>>
    /\ threads[o].at = "timed_out" /\ threads[o].holds = <<Own(o, "pending_requests")>>
    /\ WaitsFor(p, 0) /\ threads[p].at = "resolved"

====
